---- MODULE Spec2Model ----
(***************************************************************************)
(* Trade ledger of the copy trader (database.py, pnl.py).                  *)
(*                                                                         *)
(* Numbers.  The ledger stores Python floats.  The model works on an exact *)
(* grid: a price is a number of ticks, tick = 1/PriceDen, and a USD amount *)
(* is a number of ledger units, 1 USD = Unit units, where Unit is the      *)
(* least common multiple of 1..PriceDen.  A share count s stands for       *)
(* s * PriceDen / Unit shares, so that                                      *)
(*      size / price   is   size \div price   (exact on the grid) and      *)
(*      shares * price is   shares * price    (in ledger units).           *)
(* Every amount the inputs below produce stays on the grid, so the integer *)
(* arithmetic is the real-number arithmetic of the code; float rounding    *)
(* below the epsilons of the code (1e-6, 1e-9) is not modelled.            *)
(***************************************************************************)
EXTENDS Integers, Sequences, FiniteSets, TLC

\* ---------------------------------------------------------------- bounds
MaxRows == 2
MaxInits == 1

\* ------------------------------------------------------ program constants
\* the price 1.0 of assert_price_probability, in ticks
PriceDen == 2
MAX_MARKET_ID_LENGTH == 256
MAX_WALLET_ADDRESS_LENGTH == 42
\* eps = 1e-6 USD of validate_trade_integrity / assert_shares_consistent,
\* in whole ledger units (1e-6 USD is less than one unit)
EpsUnits == 0
\* 1e-9 USD of is_full_close, in whole ledger units
FullCloseEpsUnits == 0

\* ---------------------------------------------------------------- numbers
RECURSIVE GCD(_, _)
GCD(a, b) == IF b = 0 THEN a ELSE GCD(b, a % b)

RECURSIVE LCMUpTo(_)
LCMUpTo(n) == IF n <= 1 THEN 1 ELSE (LCMUpTo(n - 1) * n) \div GCD(LCMUpTo(n - 1), n)

Unit == LCMUpTo(PriceDen)

Abs(x) == IF x < 0 THEN 0 - x ELSE x

Min(a, b) == IF a < b THEN a ELSE b

Max(a, b) == IF a > b THEN a ELSE b

\* SQL NULL / Python None, and a present value
None == << >>

Some(v) == << v >>

IsNone(o) == o = << >>

Val(o) == o[1]

\* ------------------------------------------------------------------ pnl.py
compute_shares(size, entry_price) ==
    IF entry_price <= 0 THEN 0 ELSE size \div entry_price

\* TRUE iff assert_price_probability returns without raising ValueError
price_probability_ok(price) == ~(price < 0 \/ price > PriceDen)

\* TRUE iff assert_shares_consistent returns without raising ValueError
shares_consistent_ok(shares, entry_price, cost_basis_usd, eps) ==
    /\ ~(shares <= 0)
    /\ ~(Abs(shares * entry_price - cost_basis_usd) > eps)

\* the share count taken for a USD value
compute_current_value_shares_as_usd(shares, current_price) == shares

compute_current_value(shares, current_price) == shares * current_price

\* current_price is optional: None gives 0
compute_unrealized_pnl(shares, entry_price, current_price) ==
    IF IsNone(current_price) THEN 0 ELSE shares * (Val(current_price) - entry_price)

\* the exit value taken for the realized P&L
compute_realized_pnl_without_cost(shares, entry_price, exit_price) ==
    IF IsNone(exit_price) THEN 0 ELSE shares * Val(exit_price)

compute_realized_pnl(shares, entry_price, exit_price) ==
    IF IsNone(exit_price) THEN 0 ELSE shares * (Val(exit_price) - entry_price)

\* every share paid out at 1.0
compute_proceeds_at_par(shares, exit_price) ==
    IF IsNone(exit_price) THEN 0 ELSE shares * PriceDen

compute_proceeds(shares, exit_price) ==
    IF IsNone(exit_price) THEN 0 ELSE shares * Val(exit_price)

\* ------------------------------------------------------------- validation
\* characters of a market id: members of [a-zA-Z0-9_\-x], "nl" is "\n",
\* anything else is outside the class
MarketCharClass == {"0", "x", "a", "b", "_", "-"}

\* re.match(r'^[a-zA-Z0-9_\-x]+$', market): "$" also matches just before a
\* newline that ends the string
regex_match(market) ==
    LET n == Len(market)
        body == IF n > 0 /\ market[n] = "nl" THEN SubSeq(market, 1, n - 1) ELSE market
    IN  /\ Len(body) >= 1
        /\ \A i \in 1..Len(body) : body[i] \in MarketCharClass

\* TRUE iff _validate_market_id returns without raising ValueError
validate_market_id_ok(market) ==
    /\ ~(Len(market) = 0 \/ Len(market) > MAX_MARKET_ID_LENGTH)
    /\ regex_match(market)

\* str.upper() on the side strings the model uses
Upper(s) ==
    CASE s = "buy" -> "BUY"
      [] s = "sell" -> "SELL"
      [] s = "hold" -> "HOLD"
      [] OTHER -> s

\* str.lower() on the mode / status strings the model uses
Lower(s) ==
    CASE s = "LIVE" -> "live"
      [] s = "Backtest" -> "backtest"
      [] OTHER -> s

\* TRUE iff _validate_side returns without raising ValueError
validate_side_ok(side) == Upper(side) \in {"BUY", "SELL"}

\* ------------------------------------------------------------------ state
VARIABLES
    trades,     \* the trades table: sequence of rows, row i has id i
    portfolio,  \* the portfolio table: << >> or one row (id = 1)
    last,       \* the last call made on the Database and its outcome
    hist,       \* sums over the calls since the last initialize_portfolio
    loop,       \* the copy loop of copy_trader.py: position and locals
    conc,       \* threads writing through their own connections
    mm,         \* the market-making engine: resting orders and its ledger
    call        \* a call of a pure function: arguments and result

vars == << trades, portfolio, last, hist, loop, conc, mm, call >>

\* the state outside the Database object
aux == << loop, conc, mm, call >>

\* nothing but the Database is running
Off == [pc |-> "off"]

\* outcome of a call: op, trade id, exception or "none", returned number,
\* the arguments, the issues collected (validate / gate) and the dictionary
\* returned (reconcile)
Call(op, id, exc, ret, arg) ==
    [op |-> op, exc |-> exc, ret |-> ret,
     issues |-> {}, rec |-> << >>]

get_cash_balance == IF portfolio = << >> THEN 0 ELSE portfolio[1].cash

\* hist is bookkeeping for the properties, not program state: whether the
\* trades table was empty at initialize_portfolio, whether update_portfolio
\* ran since, the sums of opens, proceeds and returned realized P&L since,
\* and the add_trade not yet followed by another cash movement
NoHist ==
    [inits |-> 0, emptyAtInit |-> FALSE, updated |-> FALSE,
     buys |-> 0, sells |-> 0, proceeds |-> 0, returned |-> 0,
     lastOpen |-> << >>]

Init ==
    /\ trades = << >>
    /\ portfolio = << >>
    /\ last = Call("none", 0, "none", 0, << >>)
    /\ hist = NoHist
    /\ loop = Off /\ conc = Off /\ mm = Off /\ call = Off

\* the cash column left out of the UPDATE
UpdatePortfolioRow_pnl_only(p, cash_delta, pnl_delta) ==
    IF p = << >> THEN p
    ELSE << [p[1] EXCEPT !.pnl_total = @ + pnl_delta] >>

\* "UPDATE portfolio SET ... WHERE id = 1": no row, no change
UpdatePortfolioRow(p, cash_delta, pnl_delta) ==
    IF p = << >> THEN p
    ELSE << [p[1] EXCEPT !.cash = @ + cash_delta, !.pnl_total = @ + pnl_delta] >>

\* ----------------------------------------------------- initialize_portfolio
initialize_portfolio(initial_budget) ==
    /\ hist.inits < MaxInits
    /\ portfolio' = << [total_value |-> initial_budget, cash |-> initial_budget,
                        initial_budget |-> initial_budget, pnl_24h |-> 0,
                        pnl_total |-> 0] >>
    /\ hist' = [NoHist EXCEPT !.inits = hist.inits + 1,
                              !.emptyAtInit = (trades = << >>)]
    /\ last' = Call("initialize_portfolio", 0, "none", 0, << initial_budget >>)
    /\ UNCHANGED trades

\* ---------------------------------------------------------------- add_trade
add_trade_valid(market, side, size, price, target_wallet) ==
    /\ validate_market_id_ok(market)
    /\ validate_side_ok(side)
    /\ ~(size <= 0)
    /\ ~(price <= 0)
    /\ price_probability_ok(price)
    /\ ~(Len(target_wallet) > MAX_WALLET_ADDRESS_LENGTH)

NewOpenRow(id, market, side, size, price, target_wallet, eps_src, cur_src) ==
    [id |-> id, market |-> market, side |-> side, size |-> size, price |-> price,
     target_wallet |-> target_wallet,
     shares |-> compute_shares(size, price),
     current_price |-> Some(price), current_value |-> size,
     sell_price |-> None,
     proceeds |-> 0, realized_pnl |-> 0, unrealized_pnl |-> 0, pnl |-> 0,
     status |-> "open",
     entry_price_source |-> Some(eps_src), current_price_source |-> Some(cur_src),
     exit_price_source |-> None, fill_price_source |-> None]

\* an INSERT OR REPLACE that reuses the id of a closed row
add_trade_reuses_closed_id(market, side, size, price, target_wallet, entry_price_source, current_price_source) ==
    IF ~add_trade_valid(market, side, size, price, target_wallet)
    THEN /\ last' = Call("add_trade", 0, "ValueError", 0,
                         << market, side, size, price, target_wallet >>)
         /\ UNCHANGED << trades, portfolio, hist >>
    ELSE LET s == Upper(side)
             closed == {i \in 1..Len(trades) : trades[i].status = "closed"}
             trade_id == IF closed # {} THEN CHOOSE i \in closed : TRUE
                         ELSE Len(trades) + 1
             row == NewOpenRow(trade_id, market, s, size, price, target_wallet,
                               entry_price_source, current_price_source)
         IN  /\ trade_id <= MaxRows
             /\ trades' = IF trade_id <= Len(trades)
                          THEN [trades EXCEPT ![trade_id] = row]
                          ELSE Append(trades, row)
             /\ portfolio' = UpdatePortfolioRow(portfolio,
                                 IF s = "BUY" THEN 0 - size ELSE size, 0)
             /\ hist' = [hist EXCEPT
                    !.buys = IF s = "BUY" THEN @ + size ELSE @,
                    !.sells = IF s = "SELL" THEN @ + size ELSE @,
                    !.lastOpen = << trade_id, get_cash_balance >>]
             /\ last' = Call("add_trade", trade_id, "none", trade_id,
                             << market, side, size, price, target_wallet >>)

add_trade(market, side, size, price, target_wallet, entry_price_source, current_price_source) ==
    IF ~add_trade_valid(market, side, size, price, target_wallet)
    THEN /\ last' = Call("add_trade", 0, "ValueError", 0,
                         << market, side, size, price, target_wallet >>)
         /\ UNCHANGED << trades, portfolio, hist >>
    ELSE LET s == Upper(side)
             trade_id == Len(trades) + 1
         IN  /\ Len(trades) < MaxRows
             /\ trades' = Append(trades,
                    NewOpenRow(trade_id, market, s, size, price, target_wallet,
                               entry_price_source, current_price_source))
             /\ portfolio' = UpdatePortfolioRow(portfolio,
                                 IF s = "BUY" THEN 0 - size ELSE size, 0)
             /\ hist' = [hist EXCEPT
                    !.buys = IF s = "BUY" THEN @ + size ELSE @,
                    !.sells = IF s = "SELL" THEN @ + size ELSE @,
                    !.lastOpen = << trade_id, get_cash_balance >>]
             /\ last' = Call("add_trade", trade_id, "none", trade_id,
                             << market, side, size, price, target_wallet >>)

\* --------------------------------------------------------- update_trade_pnl
\* rows are never deleted, so "SELECT ... WHERE id = ?" finds row trade_id
\* iff trade_id is an index of trades
RowExists(trade_id) == trade_id \in 1..Len(trades)

\* float(row["shares"] or 0.0) or compute_shares(size, entry_price)
SharesOf(row) ==
    IF row.shares # 0 THEN row.shares ELSE compute_shares(row.size, row.price)

\* a mark without the status test: closed rows are marked too
update_trade_pnl_marks_closed(trade_id, current_price, current_price_source) ==
    LET arg == << current_price, current_price_source >>
    IN
    IF ~RowExists(trade_id)
    THEN /\ last' = Call("update_trade_pnl", trade_id, "none", 0, arg)
         /\ UNCHANGED << trades, portfolio, hist >>
    ELSE LET row == trades[trade_id]
             shares == SharesOf(row)
             unrealized_pnl ==
                 IF Upper(row.side) = "BUY"
                 THEN compute_unrealized_pnl(shares, row.price, Some(current_price))
                 ELSE shares * (row.price - current_price)
         IN  IF ~price_probability_ok(current_price)
             THEN /\ last' = Call("update_trade_pnl", trade_id, "ValueError", 0, arg)
                  /\ UNCHANGED << trades, portfolio, hist >>
             ELSE /\ trades' = [trades EXCEPT ![trade_id] =
                        [row EXCEPT !.shares = shares,
                                    !.current_price = Some(current_price),
                                    !.current_value = shares * current_price,
                                    !.unrealized_pnl = unrealized_pnl,
                                    !.pnl = unrealized_pnl,
                                    !.current_price_source = Some(current_price_source)]]
                  /\ last' = Call("update_trade_pnl", trade_id, "none", unrealized_pnl, arg)
                  /\ UNCHANGED << portfolio, hist >>

update_trade_pnl(trade_id, current_price, current_price_source) ==
    LET arg == << current_price, current_price_source >>
    IN
    IF ~RowExists(trade_id)
    THEN /\ last' = Call("update_trade_pnl", trade_id, "none", 0, arg)
         /\ UNCHANGED << trades, portfolio, hist >>
    ELSE LET row == trades[trade_id]
             shares == SharesOf(row)
             unrealized_pnl ==
                 IF Upper(row.side) = "BUY"
                 THEN compute_unrealized_pnl(shares, row.price, Some(current_price))
                 ELSE shares * (row.price - current_price)
             current_value == shares * current_price
         IN  IF Lower(row.status) # "open"
             THEN /\ last' = Call("update_trade_pnl", trade_id, "none", row.pnl, arg)
                  /\ UNCHANGED << trades, portfolio, hist >>
             ELSE IF ~price_probability_ok(current_price)
             THEN /\ last' = Call("update_trade_pnl", trade_id, "ValueError", 0, arg)
                  /\ UNCHANGED << trades, portfolio, hist >>
             ELSE IF row.price <= 0
             THEN /\ last' = Call("update_trade_pnl", trade_id, "none", 0, arg)
                  /\ UNCHANGED << trades, portfolio, hist >>
             ELSE IF ~shares_consistent_ok(shares, row.price, row.size, EpsUnits)
             THEN /\ last' = Call("update_trade_pnl", trade_id, "ValueError", 0, arg)
                  /\ UNCHANGED << trades, portfolio, hist >>
             ELSE /\ trades' = [trades EXCEPT ![trade_id] =
                        [row EXCEPT !.shares = shares,
                                    !.current_price = Some(current_price),
                                    !.current_value = current_value,
                                    !.unrealized_pnl = unrealized_pnl,
                                    !.pnl = unrealized_pnl,
                                    !.current_price_source = Some(current_price_source)]]
                  /\ last' = Call("update_trade_pnl", trade_id, "none", unrealized_pnl, arg)
                  /\ UNCHANGED << portfolio, hist >>

\* -------------------------------------------------------------- close_trade
\* the SELECT without its status filter
OpenRowFound_any_status(trade_id) == RowExists(trade_id)

\* "SELECT ... FROM trades WHERE id = ? AND status = 'open'" returns a row
OpenRowFound(trade_id) == RowExists(trade_id) /\ trades[trade_id].status = "open"

\* realized P&L of a slice of shares_to_close shares of row at exit_price
SliceRealized(row, shares_to_close, exit_price) ==
    IF Upper(row.side) = "BUY"
    THEN compute_realized_pnl(shares_to_close, row.price, Some(exit_price))
    ELSE shares_to_close * (row.price - exit_price)

\* the row after "UPDATE trades SET status = 'closed', ..." of a full close
FullyClosedRow(row, shares_total, exit_price, proceeds, realized_pnl, xsrc, fsrc) ==
    [row EXCEPT !.status = "closed", !.sell_price = Some(exit_price),
                !.shares = shares_total, !.current_price = None,
                !.current_value = proceeds, !.proceeds = proceeds,
                !.realized_pnl = realized_pnl, !.unrealized_pnl = 0,
                !.pnl = realized_pnl,
                !.exit_price_source = Some(xsrc), !.fill_price_source = Some(fsrc)]

\* the closed row a partial close inserts for the realized slice
ClosedSliceRow(id, row, close_size, shares_to_close, exit_price, proceeds, realized_pnl, xsrc, fsrc) ==
    [id |-> id, market |-> row.market, side |-> row.side, size |-> close_size,
     price |-> row.price, target_wallet |-> row.target_wallet,
     shares |-> shares_to_close,
     current_price |-> None, current_value |-> proceeds,
     sell_price |-> Some(exit_price),
     proceeds |-> proceeds, realized_pnl |-> realized_pnl, unrealized_pnl |-> 0,
     pnl |-> realized_pnl, status |-> "closed",
     entry_price_source |->
         IF IsNone(row.entry_price_source) THEN Some("unknown") ELSE row.entry_price_source,
     current_price_source |-> None,
     exit_price_source |-> Some(xsrc), fill_price_source |-> Some(fsrc)]

\* the original row after the "UPDATE trades SET size = ?, ..." of a partial close
RemainingRow(row, close_size, shares_total, shares_to_close, exit_price, xsrc) ==
    LET remaining_size == row.size - close_size
        remaining_shares == Max(shares_total - shares_to_close, 0)
        remaining_unrealized ==
            compute_unrealized_pnl(remaining_shares, row.price, Some(exit_price))
        remaining_current_value == remaining_shares * exit_price
    IN  [row EXCEPT !.size = remaining_size, !.shares = remaining_shares,
                    !.current_price = Some(exit_price),
                    !.current_value = remaining_current_value,
                    !.unrealized_pnl = remaining_unrealized,
                    !.pnl = remaining_unrealized,
                    !.current_price_source = Some(xsrc)]

\* close_size is optional: None closes the whole lot
close_trade(trade_id, exit_price, close_size_opt, exit_price_source, fill_price_source) ==
    LET arg == << exit_price, close_size_opt, exit_price_source, fill_price_source >>
        NoOp(exc) ==
            /\ last' = Call("close_trade", trade_id, exc, 0, arg)
            /\ UNCHANGED << trades, portfolio, hist >>
    IN
    IF ~OpenRowFound(trade_id)
    THEN NoOp("none")
    ELSE IF ~price_probability_ok(exit_price)
    THEN NoOp("ValueError")
    ELSE LET row == trades[trade_id]
             entry_price == row.price
             size == row.size
             shares_total == SharesOf(row)
             close_size == IF IsNone(close_size_opt) THEN size
                           ELSE Min(Max(Val(close_size_opt), 0), size)
             shares_to_close == compute_shares(close_size, entry_price)
             realized_pnl == SliceRealized(row, shares_to_close, exit_price)
             proceeds == compute_proceeds(shares_to_close, Some(exit_price))
             is_full_close == Abs(close_size - size) <= FullCloseEpsUnits
         IN  IF ~shares_consistent_ok(shares_total, entry_price, size, EpsUnits)
             THEN NoOp("ValueError")
             ELSE IF entry_price <= 0 \/ size <= 0
             THEN NoOp("none")
             ELSE IF close_size <= 0
             THEN NoOp("none")
             ELSE /\ IF is_full_close
                     THEN trades' = [trades EXCEPT ![trade_id] =
                              FullyClosedRow(row, shares_total, exit_price, proceeds,
                                             realized_pnl, exit_price_source,
                                             fill_price_source)]
                     ELSE /\ Len(trades) < MaxRows
                          /\ trades' = Append(
                                [trades EXCEPT ![trade_id] =
                                    RemainingRow(row, close_size, shares_total,
                                                 shares_to_close, exit_price,
                                                 exit_price_source)],
                                ClosedSliceRow(Len(trades) + 1, row, close_size,
                                               shares_to_close, exit_price, proceeds,
                                               realized_pnl, exit_price_source,
                                               fill_price_source))
                  /\ portfolio' = UpdatePortfolioRow(portfolio, proceeds, realized_pnl)
                  /\ hist' = [hist EXCEPT !.proceeds = @ + proceeds,
                                          !.returned = @ + realized_pnl,
                                          !.lastOpen = << >>]
                  /\ last' = Call("close_trade", trade_id, "none", realized_pnl, arg)

\* --------------------------------------------------------- update_portfolio
\* an UPDATE that also overwrites pnl_total with the 24h figure
update_portfolio_sets_pnl_total(total_value, cash, pnl_24h) ==
    /\ portfolio' = IF portfolio = << >> THEN portfolio
                    ELSE << [portfolio[1] EXCEPT !.total_value = total_value,
                                                 !.cash = cash,
                                                 !.pnl_24h = pnl_24h,
                                                 !.pnl_total = pnl_24h] >>
    /\ hist' = [hist EXCEPT !.updated = TRUE, !.lastOpen = << >>]
    /\ last' = Call("update_portfolio", 0, "none", 0, << total_value, cash, pnl_24h >>)
    /\ UNCHANGED trades

update_portfolio(total_value, cash, pnl_24h) ==
    /\ portfolio' = IF portfolio = << >> THEN portfolio
                    ELSE << [portfolio[1] EXCEPT !.total_value = total_value,
                                                 !.cash = cash,
                                                 !.pnl_24h = pnl_24h] >>
    /\ hist' = [hist EXCEPT !.updated = TRUE, !.lastOpen = << >>]
    /\ last' = Call("update_portfolio", 0, "none", 0, << total_value, cash, pnl_24h >>)
    /\ UNCHANGED trades

\* ---------------------------------------------------------- reset_pnl_total
\* returns the old pnl_total (0 when there is no portfolio row)
reset_pnl_total ==
    /\ portfolio' = IF portfolio = << >> THEN portfolio
                    ELSE << [portfolio[1] EXCEPT !.pnl_total = 0] >>
    /\ hist' = [hist EXCEPT !.returned = 0]
    /\ last' = Call("reset_pnl_total", 0, "none",
                    IF portfolio = << >> THEN 0 ELSE portfolio[1].pnl_total, << >>)
    /\ UNCHANGED trades

\* ------------------------------------------------------ reconcile_portfolio
\* float(trade.get("shares") or 0.0), then compute_shares when it is not positive
LedgerShares(row) ==
    IF row.shares <= 0 /\ row.price > 0 THEN compute_shares(row.size, row.price)
    ELSE row.shares

ZeroTotals ==
    [total_open_value |-> 0, total_unrealized |-> 0, total_realized |-> 0,
     open_positions |-> 0, closed_positions |-> 0]

\* the loop of reconcile_trade_ledger over rows 1..n
RECURSIVE LedgerTotals(_, _)
LedgerTotals(rows, n) ==
    IF n = 0 THEN ZeroTotals
    ELSE LET t == LedgerTotals(rows, n - 1)
             row == rows[n]
             shares == LedgerShares(row)
             current_price == IF IsNone(row.current_price) THEN row.price
                              ELSE Val(row.current_price)
         IN  IF Lower(row.status) = "open"
             THEN [t EXCEPT
                     !.open_positions = @ + 1,
                     !.total_open_value = @ + compute_current_value(shares, current_price),
                     !.total_unrealized = @ + compute_unrealized_pnl(shares, row.price,
                                                                     Some(current_price))]
             ELSE [t EXCEPT
                     !.closed_positions = @ + 1,
                     !.total_realized = @ + compute_realized_pnl(shares, row.price,
                                                                 row.sell_price)]

\* starting_equity is optional: the result has equity_pnl only when it is given
reconcile_trade_ledger(cash, rows, starting_equity) ==
    LET t == LedgerTotals(rows, Len(rows))
        total_value == cash + t.total_open_value
    IN  [cash |-> cash,
         total_open_value |-> t.total_open_value,
         total_unrealized |-> t.total_unrealized,
         total_realized |-> t.total_realized,
         total_value |-> total_value,
         open_positions |-> t.open_positions,
         closed_positions |-> t.closed_positions,
         equity_pnl |-> IF IsNone(starting_equity) THEN None
                        ELSE Some(total_value - Val(starting_equity))]

reconcile_portfolio(starting_equity) ==
    /\ last' = [Call("reconcile_portfolio", 0, "none", 0, << starting_equity >>) EXCEPT
                  !.rec = << reconcile_trade_ledger(get_cash_balance, trades,
                                                    starting_equity) >>]
    /\ UNCHANGED << trades, portfolio, hist >>

\* --------------------------------------------------- validate_trade_integrity
allowed_sources == {"fill", "quote", "mark", "whale_ref", "placeholder", "unknown"}

\* the errors validate_trade_field_semantics returns for one row, as kinds
validate_trade_field_semantics(row, eps) ==
    LET id == row.id
        status == Lower(row.status)
        derived_shares ==
            IF row.shares <= 0 /\ row.price > 0 /\ row.size > 0
            THEN compute_shares(row.size, row.price) ELSE row.shares
        first ==
            (IF ~price_probability_ok(row.price) THEN {<< id, "entry_price range" >>} ELSE {})
            \cup (IF status = "open" /\ IsNone(row.current_price)
                  THEN {<< id, "open trade missing current_price" >>} ELSE {})
            \cup (IF status = "open" /\ ~IsNone(row.sell_price)
                  THEN {<< id, "open trade must not have exit_price" >>} ELSE {})
            \cup (IF status # "open" /\ IsNone(row.sell_price)
                  THEN {<< id, "closed trade missing exit_price" >>} ELSE {})
            \cup (IF status # "open" /\ ~IsNone(row.current_price)
                  THEN {<< id, "closed trade must not have current_price" >>} ELSE {})
            \cup (IF row.size <= 0 THEN {<< id, "invalid cost_basis_usd" >>} ELSE {})
            \cup (IF derived_shares <= 0 THEN {<< id, "invalid shares" >>} ELSE {})
    IN  IF first = {} /\ ~shares_consistent_ok(derived_shares, row.price, row.size, eps)
        THEN {<< id, "shares/cost_basis mismatch" >>}
        ELSE first

\* the issues validate_trade_integrity adds for one row after the field semantics
RowIntegrityIssues(row, eps) ==
    LET id == row.id
        status == Lower(row.status)
        shares == LedgerShares(row)
        BadSource(field, name) ==
            IF ~IsNone(field) /\ Val(field) \notin allowed_sources
            THEN {<< id, name >>} ELSE {}
        stored_unrealized == IF row.unrealized_pnl # 0 THEN row.unrealized_pnl ELSE row.pnl
        stored_realized == IF row.realized_pnl # 0 THEN row.realized_pnl ELSE row.pnl
    IN  BadSource(row.entry_price_source, "invalid entry_price_source")
        \cup BadSource(row.current_price_source, "invalid current_price_source")
        \cup BadSource(row.exit_price_source, "invalid exit_price_source")
        \cup BadSource(row.fill_price_source, "invalid fill_price_source")
        \cup (IF row.price > 0 /\ Abs(row.size - shares * row.price) > eps
              THEN {<< id, "cost_basis mismatch" >>} ELSE {})
        \cup (IF status = "open" /\ ~IsNone(row.current_price)
              THEN (IF Abs(row.current_value - shares * Val(row.current_price)) > eps
                    THEN {<< id, "current_value mismatch" >>} ELSE {})
                   \cup
                   (IF Abs(stored_unrealized
                           - compute_unrealized_pnl(shares, row.price, row.current_price)) > eps
                    THEN {<< id, "unrealized mismatch" >>} ELSE {})
              ELSE {})
        \cup (IF status # "open" /\ ~IsNone(row.sell_price)
              THEN (IF Abs(row.proceeds - shares * Val(row.sell_price)) > eps
                    THEN {<< id, "proceeds mismatch" >>} ELSE {})
                   \cup
                   (IF Abs(stored_realized
                           - compute_realized_pnl(shares, row.price, row.sell_price)) > eps
                    THEN {<< id, "realized mismatch" >>} ELSE {})
              ELSE {})

\* open_value_total of validate_trade_integrity over rows 1..n
RECURSIVE OpenValueTotal(_, _)
OpenValueTotal(rows, n) ==
    IF n = 0 THEN 0
    ELSE OpenValueTotal(rows, n - 1)
         + (IF Lower(rows[n].status) = "open" /\ ~IsNone(rows[n].current_price)
            THEN LedgerShares(rows[n]) * Val(rows[n].current_price) ELSE 0)

\* get_portfolio_stats: the row, or zeros when there is none
get_portfolio_stats ==
    IF portfolio = << >>
    THEN [total_value |-> 0, cash |-> 0, initial_budget |-> 0, pnl_24h |-> 0, pnl_total |-> 0]
    ELSE portfolio[1]

\* the list validate_trade_integrity returns, as a set
IntegrityIssues(eps) ==
    UNION {validate_trade_field_semantics(trades[i], eps) \cup RowIntegrityIssues(trades[i], eps)
           : i \in 1..Len(trades)}
    \cup (IF Abs(get_portfolio_stats.total_value
                 - (get_portfolio_stats.cash + OpenValueTotal(trades, Len(trades)))) > eps
          THEN {<< 0, "portfolio total mismatch" >>} ELSE {})

validate_trade_integrity(eps) ==
    /\ last' = [Call("validate_trade_integrity", 0, "none", 0, << eps >>) EXCEPT
                  !.issues = IntegrityIssues(eps)]
    /\ UNCHANGED << trades, portfolio, hist >>

\* ---------------------------------------------------- run_reconciliation_gate
\* the live branch without its fill_price_source test
LiveIssues_exit_source_only ==
    UNION {IF Lower(trades[i].status) # "closed" THEN {}
           ELSE (IF IsNone(trades[i].sell_price)
                 THEN {<< i, "live: closed trade missing exit_price" >>} ELSE {})
                \cup (IF trades[i].exit_price_source # Some("fill")
                      THEN {<< i, "live: exit_price_source must be fill" >>} ELSE {})
           : i \in 1..Len(trades)}

\* the issues the live branch appends
LiveIssues ==
    UNION {IF Lower(trades[i].status) # "closed" THEN {}
           ELSE (IF IsNone(trades[i].sell_price)
                 THEN {<< i, "live: closed trade missing exit_price" >>} ELSE {})
                \cup (IF trades[i].exit_price_source # Some("fill")
                      THEN {<< i, "live: exit_price_source must be fill" >>} ELSE {})
                \cup (IF trades[i].fill_price_source # Some("fill")
                      THEN {<< i, "live: fill_price_source must be fill" >>} ELSE {})
           : i \in 1..Len(trades)}

GateIssues(mode, eps) ==
    IntegrityIssues(eps) \cup (IF Lower(mode) = "live" THEN LiveIssues ELSE {})

\* dry_run falling through to the fatal branch
GateOutcome_dry_run_fatal(mode, eps) ==
    IF GateIssues(mode, eps) = {} THEN "none"
    ELSE IF Lower(mode) = "live" THEN "RuntimeError"
    ELSE IF Lower(mode) \in {"backtest"} THEN "AssertionError"
    ELSE "RuntimeError"

\* "none" when the gate returns, else the exception it raises
GateOutcome(mode, eps) ==
    IF GateIssues(mode, eps) = {} THEN "none"
    ELSE IF Lower(mode) = "live" THEN "RuntimeError"
    ELSE IF Lower(mode) \in {"backtest", "dry_run"} THEN "AssertionError"
    ELSE "RuntimeError"

run_reconciliation_gate(mode, eps) ==
    /\ last' = [Call("run_reconciliation_gate", 0, GateOutcome(mode, eps), 0,
                     << mode, eps >>) EXCEPT
                  !.issues = GateIssues(mode, eps), !.rec = << mode >>]
    /\ UNCHANGED << trades, portfolio, hist >>

\* ------------------------------------------------------------------ inputs
GoodMarket == << "0", "x", "a" >>

\* a market id ending in a newline
NewlineMarket == << "a", "b", "nl" >>

LongMarket == [i \in 1..(MAX_MARKET_ID_LENGTH + 1) |-> "a"]

BadMarkets == {<< >>, << "a", "!" >>, << "nl" >>, << "a", "nl", "b" >>, LongMarket}

GoodWallet == << "0", "x" >>

LongWallet == [i \in 1..(MAX_WALLET_ADDRESS_LENGTH + 1) |-> "f"]

\* the prices 0, 1/PriceDen, ..., 1
Prices == 0..PriceDen

BadPrices == {0 - 1, PriceDen + 1}

TradeIds == 1..(MaxRows + 1)

\* close_size: absent, zero, one USD, and more than any lot
CloseSizes == {None, Some(0), Some(Unit), Some(3 * Unit)}

Budget == 3 * Unit

\* the total the copy loop writes back: cash plus the open rows' values
MarkedTotal == get_cash_balance + OpenValueTotal(trades, Len(trades))

\* ------------------------------------------------ Spec: the ledger accounting
\* lots of one and two USD, long and short, at entry prices 1/PriceDen and 1
Lots ==
    {<< "BUY", Unit, 1 >>, << "BUY", 2 * Unit, 1 >>, << "BUY", 2 * Unit, PriceDen >>,
     << "SELL", 2 * Unit, 1 >>}

Next ==
    \/ /\ initialize_portfolio(Budget)
       /\ UNCHANGED aux
    \/ /\ \E lot \in Lots :
             add_trade(GoodMarket, lot[1], lot[2], lot[3], GoodWallet, "fill", "fill")
       /\ UNCHANGED aux
    \/ /\ \E id \in TradeIds, p \in Prices : update_trade_pnl(id, p, "fill")
       /\ UNCHANGED aux
    \/ /\ \E id \in TradeIds, p \in Prices, cs \in CloseSizes :
             close_trade(id, p, cs, "fill", "fill")
       /\ UNCHANGED aux
    \/ /\ reconcile_portfolio(Some(Budget))
       /\ UNCHANGED aux

Spec == Init /\ [][Next]_vars

\* --------------------------------- SpecGate: portfolio cache and trust gate
\* one long lot, closes tagged with every kind of price source, the copy
\* loop's write-back of the portfolio row (right or stale) and the gate
SourcePairs == {<< "fill", "fill" >>, << "quote", "fill" >>, << "fill", "quote" >>}

Modes == {"live", "LIVE", "backtest", "dry_run", "paper"}

NextGate ==
    \/ /\ initialize_portfolio(Budget)
       /\ UNCHANGED aux
    \/ /\ add_trade(GoodMarket, "BUY", 2 * Unit, 1, GoodWallet, "fill", "fill")
       /\ UNCHANGED aux
    \/ /\ \E id \in TradeIds : update_trade_pnl(id, PriceDen, "mark")
       /\ UNCHANGED aux
    \/ /\ \E id \in TradeIds, p \in {1, PriceDen}, cs \in {None, Some(Unit)},
             src \in SourcePairs :
             close_trade(id, p, cs, src[1], src[2])
       /\ UNCHANGED aux
    \/ /\ \E tv \in {MarkedTotal, Budget} : update_portfolio(tv, get_cash_balance, 0)
       /\ UNCHANGED aux
    \/ /\ reset_pnl_total
       /\ UNCHANGED aux
    \/ /\ validate_trade_integrity(EpsUnits)
       /\ UNCHANGED aux
    \/ /\ \E mode \in Modes : run_reconciliation_gate(mode, EpsUnits)
       /\ UNCHANGED aux

SpecGate == Init /\ [][NextGate]_vars

\* ------------------------------------------- SpecValidation: rejected calls
\* a valid add_trade call, and the same call with one argument made invalid
GoodCall == << GoodMarket, "BUY", Unit, 1, GoodWallet >>

AddCalls ==
    {GoodCall, [GoodCall EXCEPT ![2] = "sell"], [GoodCall EXCEPT ![1] = NewlineMarket]}
    \cup {[GoodCall EXCEPT ![1] = m] : m \in BadMarkets}
    \cup {[GoodCall EXCEPT ![2] = "HOLD"]}
    \cup {[GoodCall EXCEPT ![3] = sz] : sz \in {0, 0 - Unit}}
    \cup {[GoodCall EXCEPT ![4] = pr] : pr \in BadPrices \cup {0}}
    \cup {[GoodCall EXCEPT ![5] = LongWallet]}

NextValidation ==
    \/ /\ initialize_portfolio(Budget)
       /\ UNCHANGED aux
    \/ /\ \E c \in AddCalls : add_trade(c[1], c[2], c[3], c[4], c[5], "unknown", "unknown")
       /\ UNCHANGED aux
    \/ /\ \E id \in TradeIds, p \in Prices \cup BadPrices : update_trade_pnl(id, p, "mark")
       /\ UNCHANGED aux
    \/ /\ \E id \in TradeIds, p \in Prices \cup BadPrices, cs \in CloseSizes :
             close_trade(id, p, cs, "unknown", "unknown")
       /\ UNCHANGED aux

SpecValidation == Init /\ [][NextValidation]_vars

\* ------------------------------------------ SpecCopy: the copy loop (copy)
\* measurement_trades: the fills a measurement run stops after
MeasurementTrades == 2

\* the sum calculate_24h_pnl selects: realized P&L of the closed rows 1..n
\* (every close of a run is younger than 24 hours)
RECURSIVE calculate_24h_pnl(_, _)
calculate_24h_pnl(rows, n) ==
    IF n = 0 THEN 0
    ELSE calculate_24h_pnl(rows, n - 1)
         + (IF rows[n].status = "closed" THEN rows[n].realized_pnl ELSE 0)

\* ids of the rows get_open_positions returns, as a sequence
RECURSIVE get_open_positions(_, _)
get_open_positions(rows, n) ==
    IF n = 0 THEN << >>
    ELSE IF rows[n].status = "open"
         THEN << n >> \o get_open_positions(rows, n - 1)
         ELSE get_open_positions(rows, n - 1)

\* the locals of copy() the loop reads again: pc is the statement about to
\* run, price is price_map.get(market), todo the positions still to mark,
\* sized the sized positions still to execute; shutdown is shutdown_event;
\* gate_failed remembers that a reconciliation gate raised in this run,
\* cleanup the calls the finally block has made
CopyLocals(dry_run, measurement_mode) ==
    [pc |-> "integrity", dry_run |-> dry_run, measurement_mode |-> measurement_mode,
     shutdown |-> FALSE, price |-> None, todo |-> << >>, sized |-> << >>,
     measurement_fills |-> 0, gate_failed |-> FALSE, cleanup |-> << >>]

CopyMode == IF loop.dry_run THEN "backtest" ELSE "live"

\* the sized positions of one iteration: << action, our_size >> each
SizedPlans ==
    {<< >>, << << "BUY", Unit >> >>, << << "SELL", Unit >> >>,
     << << "HOLD", 0 >>, << "BUY", 2 * Unit >> >>,
     << << "SELL", 2 * Unit >>, << "BUY", Unit >> >>}

\* measurement mode buys and sells its pick in the same iteration
MeasurementPlan == << << "BUY", Unit >>, << "SELL", Unit >> >>

\* db = Database(db_path); db.initialize_portfolio(budget)
copy_start(dry_run, measurement_mode) ==
    /\ loop.pc = "off"
    /\ initialize_portfolio(Budget)
    /\ loop' = CopyLocals(dry_run, measurement_mode)
    /\ UNCHANGED << conc, mm, call >>

\* the rest of the startup: the integrity check, fatal outside dry_run, and
\* "shutdown_event.clear()" right before the try block
copy_integrity ==
    /\ loop.pc = "integrity"
    /\ validate_trade_integrity(EpsUnits)
    /\ loop' = IF last'.issues # {} /\ ~loop.dry_run
               THEN [loop EXCEPT !.pc = "exited"]
               ELSE [loop EXCEPT !.pc = "top", !.shutdown = FALSE]
    /\ UNCHANGED << conc, mm, call >>

\* "while not shutdown_event.is_set()" and the fetch of the target wallet;
\* a failed fetch waits and starts the iteration again
copy_top ==
    /\ loop.pc = "top"
    /\ IF loop.shutdown
       THEN loop' = [loop EXCEPT !.pc = "finally"]
       ELSE \/ UNCHANGED loop
            \/ \E price \in {None, Some(1), Some(PriceDen)} :
                  loop' = [loop EXCEPT !.pc = "mark", !.price = price,
                             !.todo = get_open_positions(trades, Len(trades))]
    /\ UNCHANGED << trades, portfolio, last, hist, conc, mm, call >>

\* one turn of "for position in our_positions: db.update_trade_pnl(...)"
copy_mark ==
    /\ loop.pc = "mark"
    /\ IF loop.todo = << >>
       THEN /\ loop' = [loop EXCEPT !.pc = "gate1"]
            /\ UNCHANGED << trades, portfolio, last, hist >>
       ELSE IF IsNone(loop.price)
       THEN /\ loop' = [loop EXCEPT !.todo = Tail(@)]
            /\ UNCHANGED << trades, portfolio, last, hist >>
       ELSE /\ update_trade_pnl(Head(loop.todo), Val(loop.price), "whale_ref")
            /\ loop' = IF last'.exc = "none" THEN [loop EXCEPT !.todo = Tail(@)]
                       ELSE [loop EXCEPT !.pc = "except"]
    /\ UNCHANGED << conc, mm, call >>

\* the gate's exception caught and logged inside the loop
CopyGate_logs_and_continues(at, next) ==
    /\ loop.pc = at
    /\ run_reconciliation_gate(CopyMode, EpsUnits)
    /\ loop' = IF last'.exc = "none" THEN [loop EXCEPT !.pc = next]
               ELSE [loop EXCEPT !.pc = next, !.gate_failed = TRUE]
    /\ UNCHANGED << conc, mm, call >>

\* a reconciliation gate call of the loop: an exception leaves the try block
CopyGate(at, next) ==
    /\ loop.pc = at
    /\ run_reconciliation_gate(CopyMode, EpsUnits)
    /\ loop' = IF last'.exc = "none" THEN [loop EXCEPT !.pc = next]
               ELSE [loop EXCEPT !.pc = "except", !.gate_failed = TRUE]
    /\ UNCHANGED << conc, mm, call >>

\* the gate after marking
copy_gate_marked == CopyGate("gate1", "risk")

\* reconcile, the risk check (its verdict is an input) and the sizing
copy_risk ==
    /\ loop.pc = "risk"
    /\ reconcile_portfolio(Some(Budget))
    /\ \/ loop' = [loop EXCEPT !.pc = "top"]
       \/ /\ loop.measurement_mode
          /\ loop' = IF loop.measurement_fills >= MeasurementTrades
                     THEN [loop EXCEPT !.pc = "finally"]
                     ELSE [loop EXCEPT !.pc = "execute", !.sized = MeasurementPlan]
       \/ /\ ~loop.measurement_mode
          /\ \E plan \in SizedPlans : loop' = [loop EXCEPT !.pc = "execute", !.sized = plan]
    /\ UNCHANGED << conc, mm, call >>

\* the price and the price source of an order: the whale's price, a fetched
\* quote or the 0.5 placeholder
OrderPrices ==
    IF ~IsNone(loop.price) THEN {<< Val(loop.price), "whale_ref" >>}
    ELSE {<< 1, "quote" >>, << PriceDen, "quote" >>, << PriceDen \div 2, "placeholder" >>}

\* exit_source / fill_source of a SELL
CloseSource(current_price_source) ==
    IF current_price_source = "placeholder" THEN "placeholder"
    ELSE IF ~loop.dry_run THEN "fill" ELSE current_price_source

\* fill recorded: a measurement run stops at its target
AfterFill(l) ==
    IF ~l.measurement_mode THEN [l EXCEPT !.sized = Tail(@)]
    ELSE IF l.measurement_fills + 1 >= MeasurementTrades
    THEN [l EXCEPT !.measurement_fills = @ + 1, !.shutdown = TRUE, !.pc = "update"]
    ELSE [l EXCEPT !.measurement_fills = @ + 1, !.sized = Tail(@)]

\* one turn of "for pos in sized_positions"
copy_execute ==
    /\ loop.pc = "execute"
    /\ IF loop.sized = << >> \/ loop.shutdown
       THEN /\ loop' = [loop EXCEPT !.pc = "update", !.sized = << >>]
            /\ UNCHANGED << trades, portfolio, last, hist >>
       ELSE LET pos == Head(loop.sized)
                skip == /\ loop' = [loop EXCEPT !.sized = Tail(@)]
                        /\ UNCHANGED << trades, portfolio, last, hist >>
            IN  IF pos[1] = "HOLD" THEN skip
                ELSE \E pr \in OrderPrices :
                    IF pos[1] = "BUY"
                    THEN /\ add_trade(GoodMarket, "BUY", pos[2], pr[1], GoodWallet,
                                      pr[2], pr[2])
                         /\ loop' = IF last'.exc = "none" THEN AfterFill(loop)
                                    ELSE [loop EXCEPT !.pc = "except"]
                    ELSE IF get_open_positions(trades, Len(trades)) = << >>
                    THEN skip
                    ELSE /\ close_trade(Head(get_open_positions(trades, Len(trades))),
                                        pr[1], Some(pos[2]),
                                        CloseSource(pr[2]), CloseSource(pr[2]))
                         /\ loop' = IF last'.exc = "none" THEN AfterFill(loop)
                                    ELSE [loop EXCEPT !.pc = "except"]
    /\ UNCHANGED << conc, mm, call >>

\* the write-back of the reconciled totals
copy_update ==
    /\ loop.pc = "update"
    /\ update_portfolio(
          reconcile_trade_ledger(get_cash_balance, trades, Some(Budget)).total_value,
          get_cash_balance, calculate_24h_pnl(trades, Len(trades)))
    /\ loop' = [loop EXCEPT !.pc = "gate2"]
    /\ UNCHANGED << conc, mm, call >>

\* the gate at the end of the iteration, then the wait
copy_gate_end == CopyGate("gate2", "top")

\* SIGINT / SIGTERM: the handler sets shutdown_event
copy_signal ==
    /\ loop.pc \notin {"off", "exited"}
    /\ ~loop.shutdown
    /\ loop' = [loop EXCEPT !.shutdown = TRUE]
    /\ UNCHANGED << trades, portfolio, last, hist, conc, mm, call >>

\* "except Exception": a measurement run logs and sets shutdown_event, any
\* other run re-raises; both fall into the finally block
copy_except ==
    /\ loop.pc = "except"
    /\ loop' = [loop EXCEPT !.pc = "finally",
                            !.shutdown = IF loop.measurement_mode THEN TRUE ELSE @]
    /\ UNCHANGED << trades, portfolio, last, hist, conc, mm, call >>

\* the calls of the finally block, in order; get_portfolio_stats only reads
\* the portfolio row
CleanupCalls ==
    << "get_portfolio_stats", "send_shutdown_notification", "health_server.stop",
       "tracker.close", "db.close" >>

\* the finally block, up to sys.exit(0)
copy_finally ==
    /\ loop.pc = "finally"
    /\ loop' = [loop EXCEPT !.pc = "exited", !.cleanup = CleanupCalls]
    /\ UNCHANGED << trades, portfolio, last, hist, conc, mm, call >>

NextCopy ==
    \/ \E dry_run \in BOOLEAN, measurement_mode \in BOOLEAN :
          copy_start(dry_run, measurement_mode)
    \/ copy_integrity
    \/ copy_top
    \/ copy_mark
    \/ copy_gate_marked
    \/ copy_risk
    \/ copy_execute
    \/ copy_update
    \/ copy_gate_end
    \/ copy_signal
    \/ copy_except
    \/ copy_finally

SpecCopy == Init /\ [][NextCopy]_vars

\* the loop keeps running: every enabled statement is eventually executed
SpecCopyFair == SpecCopy /\ WF_vars(NextCopy)

\* ------------------------- SpecConc: threads writing through one Database
\* Every thread has its own sqlite3 connection (threading.local).  A write
\* statement opens a transaction on the connection (implicit BEGIN) and takes
\* SQLite's write lock until conn.commit(); the other connections read the
\* committed tables.  add_trade and close_trade run under Database._lock,
\* update_trade_pnl and update_portfolio do not.
MaxThreads == 2

\* calls a thread makes
MaxCalls == 2

Threads == 1..MaxThreads

\* the tables as one connection sees them
Tables(t, p) == [trades |-> t, portfolio |-> p]

Committed == Tables(trades, portfolio)

\* the columns S of a row
Cols(row, S) == [c \in S |-> row[c]]

\* one SQL write statement on the tables db
Exec(db, stmt) ==
    CASE stmt.kind = "insert" ->
            [db EXCEPT !.trades = Append(@, [stmt.row EXCEPT !.id = Len(db.trades) + 1])]
      [] stmt.kind = "update_row" ->
            [db EXCEPT !.trades[stmt.id] =
                [c \in DOMAIN @ |-> IF c \in DOMAIN stmt.set THEN stmt.set[c] ELSE @[c]]]
      [] stmt.kind = "update_cash" ->
            [db EXCEPT !.portfolio = UpdatePortfolioRow(@, stmt.cash_delta, stmt.pnl_delta)]
      [] stmt.kind = "set_portfolio" ->
            [db EXCEPT !.portfolio =
                IF @ = << >> THEN @
                ELSE << [@[1] EXCEPT !.total_value = stmt.total_value,
                                     !.cash = stmt.cash, !.pnl_24h = stmt.pnl_24h] >>]

RECURSIVE ExecAll(_, _)
ExecAll(db, stmts) ==
    IF stmts = << >> THEN db ELSE ExecAll(Exec(db, Head(stmts)), Tail(stmts))

\* the write statements of add_trade (the call is valid)
AddTradeWrites(c) ==
    << [kind |-> "insert",
        row |-> NewOpenRow(0, c.market, Upper(c.side), c.size, c.price, GoodWallet,
                           "fill", "fill")],
       [kind |-> "update_cash",
        cash_delta |-> IF Upper(c.side) = "BUY" THEN 0 - c.size ELSE c.size,
        pnl_delta |-> 0] >>

\* the write statement of update_trade_pnl, from the row its SELECT returned
\* on the tables db; no statement when it returns early or raises
UpdateTradePnlWrites(db, c) ==
    IF ~(c.id \in 1..Len(db.trades)) THEN << >>
    ELSE LET row == db.trades[c.id]
             shares == SharesOf(row)
             unrealized_pnl ==
                 IF Upper(row.side) = "BUY"
                 THEN compute_unrealized_pnl(shares, row.price, Some(c.price))
                 ELSE shares * (row.price - c.price)
         IN  IF \/ Lower(row.status) # "open"
                \/ ~price_probability_ok(c.price)
                \/ row.price <= 0
                \/ ~shares_consistent_ok(shares, row.price, row.size, EpsUnits)
             THEN << >>
             ELSE << [kind |-> "update_row", id |-> c.id,
                      set |-> [shares |-> shares, current_price |-> Some(c.price),
                               current_value |-> shares * c.price,
                               unrealized_pnl |-> unrealized_pnl, pnl |-> unrealized_pnl,
                               current_price_source |-> Some("mark")]] >>

\* the write statements of close_trade, from the row its SELECT returned
CloseTradeWrites(db, c) ==
    IF ~(c.id \in 1..Len(db.trades) /\ db.trades[c.id].status = "open") THEN << >>
    ELSE LET row == db.trades[c.id]
             shares_total == SharesOf(row)
             close_size == IF IsNone(c.close_size) THEN row.size
                           ELSE Min(Max(Val(c.close_size), 0), row.size)
             shares_to_close == compute_shares(close_size, row.price)
             realized_pnl == SliceRealized(row, shares_to_close, c.price)
             proceeds == compute_proceeds(shares_to_close, Some(c.price))
             cash == [kind |-> "update_cash", cash_delta |-> proceeds,
                      pnl_delta |-> realized_pnl]
         IN  IF \/ ~price_probability_ok(c.price)
                \/ ~shares_consistent_ok(shares_total, row.price, row.size, EpsUnits)
                \/ row.price <= 0 \/ row.size <= 0 \/ close_size <= 0
             THEN << >>
             ELSE IF Abs(close_size - row.size) <= FullCloseEpsUnits
             THEN << [kind |-> "update_row", id |-> c.id,
                      set |-> Cols(FullyClosedRow(row, shares_total, c.price, proceeds,
                                                  realized_pnl, "fill", "fill"),
                                   {"status", "sell_price", "shares", "current_price",
                                    "current_value", "proceeds", "realized_pnl",
                                    "unrealized_pnl", "pnl", "exit_price_source",
                                    "fill_price_source"})],
                     cash >>
             ELSE << [kind |-> "insert",
                      row |-> ClosedSliceRow(0, row, close_size, shares_to_close, c.price,
                                             proceeds, realized_pnl, "fill", "fill")],
                     [kind |-> "update_row", id |-> c.id,
                      set |-> Cols(RemainingRow(row, close_size, shares_total,
                                                shares_to_close, c.price, "fill"),
                                   {"size", "shares", "current_price", "current_value",
                                    "unrealized_pnl", "pnl", "current_price_source"})],
                     cash >>

UpdatePortfolioWrites(c) ==
    << [kind |-> "set_portfolio", total_value |-> c.total_value, cash |-> c.cash,
        pnl_24h |-> 0] >>

\* the statements call c executes when its reads see the tables db
Writes(db, c) ==
    CASE c.op = "add_trade" -> AddTradeWrites(c)
      [] c.op = "update_trade_pnl" -> UpdateTradePnlWrites(db, c)
      [] c.op = "close_trade" -> CloseTradeWrites(db, c)
      [] c.op = "update_portfolio" -> UpdatePortfolioWrites(c)

\* the methods that run inside "with self._lock"
Locked(c) == c.op \in {"add_trade", "close_trade"}

\* the calls the threads make
ThreadCalls ==
    {[op |-> "add_trade", market |-> GoodMarket, side |-> "BUY", size |-> 2 * Unit,
      price |-> 1]}
    \cup {[op |-> "update_trade_pnl", id |-> 1, price |-> PriceDen]}
    \cup {[op |-> "close_trade", id |-> 1, price |-> PriceDen, close_size |-> cs] :
            cs \in {None, Some(Unit)}}
    \cup {[op |-> "update_portfolio", total_value |-> Budget, cash |-> Budget - 2 * Unit]}

IdleThread == [pc |-> "idle", call |-> << >>, todo |-> << >>, calls |-> 0]

\* mutex: the thread inside Database._lock, 0 when free; writer: the thread
\* whose connection holds the write lock, pending: the tables as that
\* connection sees them; done: the calls that returned, in commit order
ConcStart ==
    [pc |-> "run", thr |-> [t \in Threads |-> IdleThread], mutex |-> 0, writer |-> 0,
     pending |-> << >>, done |-> << >>]

\* the main thread creates the Database and the portfolio, then the threads run
conc_start ==
    /\ conc.pc = "off"
    /\ initialize_portfolio(Budget)
    /\ conc' = ConcStart
    /\ UNCHANGED << loop, mm, call >>

\* thread t enters a ledger method; add_trade is bounded by the table size
conc_call(t, c) ==
    /\ conc.pc = "run"
    /\ conc.thr[t].pc = "idle"
    /\ conc.thr[t].calls < MaxCalls
    /\ c.op = "add_trade" => Len(trades) + 1 < MaxRows
    /\ conc' = [conc EXCEPT !.thr[t] = [pc |-> IF Locked(c) THEN "lock" ELSE "read",
                                        call |-> c, todo |-> << >>, calls |-> @.calls + 1]]
    /\ UNCHANGED << trades, portfolio, last, hist, loop, mm, call >>

\* "with self._lock:" waits for the mutex
conc_lock(t) ==
    /\ conc.pc = "run"
    /\ conc.thr[t].pc = "lock"
    /\ conc.mutex = 0
    /\ conc' = [conc EXCEPT !.mutex = t, !.thr[t].pc = "read"]
    /\ UNCHANGED << trades, portfolio, last, hist, loop, mm, call >>

\* the thread has returned from its call
Returned(c, t) ==
    [c EXCEPT !.thr[t].pc = "idle", !.thr[t].todo = << >>,
              !.mutex = IF @ = t THEN 0 ELSE @,
              !.done = Append(@, c.thr[t].call)]

\* the SELECT of the method on the committed tables and the Python code up
\* to the first write statement; without a write the method returns
conc_read(t) ==
    /\ conc.pc = "run"
    /\ conc.thr[t].pc = "read"
    /\ LET w == Writes(Committed, conc.thr[t].call)
       IN  conc' = IF w = << >> THEN Returned(conc, t)
                   ELSE [conc EXCEPT !.thr[t].pc = "write", !.thr[t].todo = w]
    /\ UNCHANGED << trades, portfolio, last, hist, loop, mm, call >>

\* a connection in autocommit mode: every statement is its own transaction
conc_write_autocommit(t) ==
    /\ conc.pc = "run"
    /\ conc.thr[t].pc = "write"
    /\ conc.thr[t].todo # << >>
    /\ conc.writer \in {0, t}
    /\ conc' = [conc EXCEPT
                  !.writer = t,
                  !.pending = Exec(Committed, Head(conc.thr[t].todo)),
                  !.thr[t].todo = Tail(@)]
    /\ trades' = conc'.pending.trades
    /\ portfolio' = conc'.pending.portfolio
    /\ UNCHANGED << last, hist, loop, mm, call >>

\* the next conn.execute of a write statement: the first one of a method
\* begins the transaction and waits for the write lock
conc_write(t) ==
    /\ conc.pc = "run"
    /\ conc.thr[t].pc = "write"
    /\ conc.thr[t].todo # << >>
    /\ conc.writer \in {0, t}
    /\ conc' = [conc EXCEPT
                  !.writer = t,
                  !.pending = Exec(IF conc.writer = t THEN conc.pending ELSE Committed,
                                   Head(conc.thr[t].todo)),
                  !.thr[t].todo = Tail(@)]
    /\ UNCHANGED << trades, portfolio, last, hist, loop, mm, call >>

\* the write lock is not released within the busy timeout: the first write
\* statement raises sqlite3.OperationalError and nothing has been written
conc_busy(t) ==
    /\ conc.pc = "run"
    /\ conc.thr[t].pc = "write"
    /\ conc.writer \notin {0, t}
    /\ conc' = [conc EXCEPT !.thr[t].pc = "idle", !.thr[t].todo = << >>,
                            !.mutex = IF @ = t THEN 0 ELSE @]
    /\ UNCHANGED << trades, portfolio, last, hist, loop, mm, call >>

\* conn.commit() and the return of the method
conc_commit(t) ==
    /\ conc.pc = "run"
    /\ conc.thr[t].pc = "write"
    /\ conc.thr[t].todo = << >>
    /\ conc.writer = t
    /\ trades' = conc.pending.trades
    /\ portfolio' = conc.pending.portfolio
    /\ conc' = [Returned(conc, t) EXCEPT !.writer = 0, !.pending = << >>]
    /\ UNCHANGED << last, hist, loop, mm, call >>

NextConc ==
    \/ conc_start
    \/ \E t \in Threads, c \in ThreadCalls : conc_call(t, c)
    \/ \E t \in Threads : conc_lock(t)
    \/ \E t \in Threads : conc_read(t)
    \/ \E t \in Threads : conc_write(t)
    \/ \E t \in Threads : conc_busy(t)
    \/ \E t \in Threads : conc_commit(t)

SpecConc == Init /\ [][NextConc]_vars

\* ------------------------------ SpecEngine: the market-making engine
\* MarketMakingEngine keeps its resting orders in the dictionary _orders,
\* keyed by (market_id, side); place_quotes and poll_fills are the methods
\* the experiment script calls in turn.  The diagnostics recorder is built
\* with live_mode = True, so a record it rejects raises; an exception leaves
\* the script.  hist is not carried through the engine's ledger calls.
MaxOrders == 3

\* quote_size_usd: one USD
QuoteSizeUsd == Unit

OtherMarket == << "0", "x", "b" >>

EngineMarkets == {GoodMarket, OtherMarket}

\* target_wallet = "market_making"
MarketMakingWallet ==
    << "m", "a", "r", "k", "e", "t", "_", "m", "a", "k", "i", "n", "g" >>

Sides == {"buy", "sell"}

\* the element of a one-element set: The({F(x) : x \in {e}}) is F(e) with e
\* evaluated once
The(S) == CHOOSE x \in S : TRUE

\* reversed(list)
Reversed(s) == [i \in 1..Len(s) |-> s[Len(s) + 1 - i]]

\* ---------------------------------------------------------- fill_model.py
\* a crossing without the tolerance
should_fill_exact(order_side, order_price, snapshot, eps) ==
    LET ltp == snapshot.last_trade_price
    IN  IF IsNone(ltp)
        THEN [fill |-> FALSE, fill_price |-> None, reason |-> "no_last_trade_price"]
        ELSE LET crossed == IF order_side = "buy"
                            THEN Val(ltp) <= order_price
                            ELSE Val(ltp) >= order_price
             IN  IF crossed
                 THEN [fill |-> TRUE, fill_price |-> ltp, reason |-> "price_crossed"]
                 ELSE [fill |-> FALSE, fill_price |-> None, reason |-> "no_crossing"]

\* the test of the buy side made for either side
should_fill_buy_test(order_side, order_price, snapshot, eps) ==
    LET ltp == snapshot.last_trade_price
    IN  IF IsNone(ltp)
        THEN [fill |-> FALSE, fill_price |-> None, reason |-> "no_last_trade_price"]
        ELSE IF Val(ltp) <= order_price + eps
        THEN [fill |-> TRUE, fill_price |-> ltp, reason |-> "price_crossed"]
        ELSE [fill |-> FALSE, fill_price |-> None, reason |-> "no_crossing"]

\* DeterministicCrossingFillModel.should_fill; eps is 1e-9 in the unit of
\* the prices
should_fill(order_side, order_price, snapshot, eps) ==
    LET ltp == snapshot.last_trade_price
    IN  IF IsNone(ltp)
        THEN [fill |-> FALSE, fill_price |-> None, reason |-> "no_last_trade_price"]
        ELSE LET crossed == IF order_side = "buy"
                            THEN Val(ltp) <= order_price + eps
                            ELSE Val(ltp) >= order_price - eps
             IN  IF crossed
                 THEN [fill |-> TRUE, fill_price |-> ltp, reason |-> "price_crossed"]
                 ELSE [fill |-> FALSE, fill_price |-> None, reason |-> "no_crossing"]

\* ------------------------------------------------- market_making_engine.py
\* the orders _orders holds under key (a dictionary holds at most one)
OrderAt(e, key) == {o \in e.orders : << o.market_id, o.side >> = key}

\* the life of the orders that leave the book, for the properties
Retire(log, orders, how) ==
    [i \in 1..Len(log) |->
        IF \E o \in orders : o.order_id = i THEN [log[i] EXCEPT !.state = how]
        ELSE log[i]]

cancel_order(e, market_id, side) ==
    LET gone == OrderAt(e, << market_id, side >>)
    IN  [e EXCEPT !.orders = @ \ gone, !.log = Retire(@, gone, "cancelled")]

cancel_market(e, market_id) ==
    cancel_order(cancel_order(e, market_id, "buy"), market_id, "sell")

upsert_order(e, market_id, side, price) ==
    LET existing == OrderAt(e, << market_id, side >>)
        order_id == e.order_seq + 1
        order == [order_id |-> order_id, market_id |-> market_id, side |-> side,
                  price |-> price,
                  qty_shares |-> compute_shares(QuoteSizeUsd, price)]
    IN  IF \E o \in existing : Abs(o.price - price) <= EpsUnits
        THEN e
        ELSE [e EXCEPT !.order_seq = order_id,
                       !.orders = (@ \ existing) \cup {order},
                       !.log = Append(Retire(@, existing, "cancelled"),
                                      [state |-> "resting", applied |-> 0])]

\* the loop of _find_oldest_open over the list pos of row ids: the first row
\* of the market and side, None when there is none
FirstOf(db, pos, market_id, side) ==
    LET hits == {i \in 1..Len(pos) :
                    /\ db.trades[pos[i]].market = market_id
                    /\ Upper(db.trades[pos[i]].side) = Upper(side)}
    IN  IF hits = {} THEN None
        ELSE Some(pos[CHOOSE i \in hits : \A j \in hits : i <= j])

\* the newest open lot of the side: the list not reversed
find_oldest_open_unreversed(db, market_id, side) ==
    The({FirstOf(db, pos, market_id, side) :
            pos \in {get_open_positions(db.trades, Len(db.trades))}})

\* the id of the first row of reversed(get_open_positions()) of the market
\* and side, None when there is none
find_oldest_open(db, market_id, side) ==
    The({FirstOf(db, pos, market_id, side) :
            pos \in {Reversed(get_open_positions(db.trades, Len(db.trades)))}})

\* TRUE iff close_trade raises ValueError for the open row it selected
CloseTradeRaises(db, c) ==
    /\ c.id \in 1..Len(db.trades) /\ db.trades[c.id].status = "open"
    /\ \/ ~price_probability_ok(c.price)
       \/ ~shares_consistent_ok(SharesOf(db.trades[c.id]), db.trades[c.id].price,
                                db.trades[c.id].size, EpsUnits)

\* the sell branch of _apply_trade: close_trade on the lot found, if any
close_oldest(db, open_pos, size_usd, price) ==
    IF IsNone(open_pos)
    THEN [db |-> db, exc |-> "none", trade_id |-> None, call |-> << >>]
    ELSE LET trade_id == Val(open_pos)
             c == [id |-> trade_id, price |-> price,
                   close_size |-> Some(IF db.trades[trade_id].size # 0
                                       THEN db.trades[trade_id].size
                                       ELSE size_usd)]
         IN  IF CloseTradeRaises(db, c)
             THEN [db |-> db, exc |-> "ValueError", trade_id |-> None,
                   call |-> Call("close_trade", trade_id, "ValueError", 0, << >>)]
             ELSE [db |-> The({ExecAll(db, w) : w \in {CloseTradeWrites(db, c)}}),
                   exc |-> "none", trade_id |-> open_pos,
                   call |-> Call("close_trade", trade_id, "none", 0, << >>)]

\* _apply_trade on the tables db: the tables after it, the exception of the
\* Database call, the trade id returned and the Database call made
apply_trade(db, market_id, side, size_usd, price) ==
    IF side = "buy"
    THEN IF ~add_trade_valid(market_id, "BUY", size_usd, price, MarketMakingWallet)
         THEN [db |-> db, exc |-> "ValueError", trade_id |-> None,
               call |-> Call("add_trade", 0, "ValueError", 0, << >>)]
         ELSE [db |-> ExecAll(db,
                      << [kind |-> "insert",
                          row |-> NewOpenRow(0, market_id, "BUY", size_usd, price,
                                             MarketMakingWallet, "fill", "fill")],
                         [kind |-> "update_cash", cash_delta |-> 0 - size_usd,
                          pnl_delta |-> 0] >>),
               exc |-> "none", trade_id |-> Some(Len(db.trades) + 1),
               call |-> Call("add_trade", Len(db.trades) + 1, "none",
                             Len(db.trades) + 1, << >>)]
    ELSE The({close_oldest(db, open_pos, size_usd, price) :
                 open_pos \in {find_oldest_open(db, market_id, "BUY")}})

\* OrderExecutionRecord rejects a fill_price outside [0,1]
record_fill_ok(fill_price) == ~(fill_price < 0 \/ fill_price > PriceDen)

\* _handle_fill: the ledger call, then the diagnostics record
handle_fill(db, order, fill_price) ==
    LET size_usd == order.qty_shares * fill_price
        r == apply_trade(db, order.market_id, order.side, size_usd, fill_price)
    IN  IF r.exc = "none" /\ ~record_fill_ok(fill_price)
        THEN [r EXCEPT !.exc = "ValidationError"]
        ELSE r

\* the engine as the script builds it; arg keeps the market and the snapshot
\* of the place_quotes call that has just returned, for the properties
EngineStart ==
    [pc |-> "run", op |-> "init", orders |-> {}, order_seq |-> 0, log |-> << >>,
     fills |-> << >>, arg |-> << >>]

Book(m) == [orders |-> m.orders, order_seq |-> m.order_seq, log |-> m.log]

\* the state of poll_fills after _handle_fill returned r for order: s holds
\* the book e, the tables db, the fills made, the exception raised and the
\* last Database call; the filled order stays in _orders
EngineAfterFill_keeps_order(s, order, fill_price, r) ==
    [e |-> [s.e EXCEPT !.log[order.order_id].applied =
                    IF r.exc \in {"none", "ValidationError"} THEN @ + 1 ELSE @],
     db |-> r.db, exc |-> r.exc,
     call |-> IF r.call = << >> THEN s.call ELSE r.call,
     fills |-> IF r.exc # "none" THEN s.fills
               ELSE Append(s.fills,
                      [order_id |-> order.order_id, market_id |-> order.market_id,
                       side |-> order.side, fill_price |-> fill_price,
                       qty_shares |-> order.qty_shares, trade_id |-> r.trade_id])]

\* the same, with "del self._orders[key]" when _handle_fill returned
EngineAfterFill(s, order, fill_price, r) ==
    [e |-> IF r.exc # "none"
           THEN [s.e EXCEPT !.log[order.order_id].applied =
                    IF r.exc = "ValidationError" THEN @ + 1 ELSE @]
           ELSE [s.e EXCEPT
                    !.orders = @ \ OrderAt(s.e, << order.market_id, order.side >>),
                    !.log = [Retire(@, OrderAt(s.e, << order.market_id, order.side >>),
                                    "filled")
                                EXCEPT ![order.order_id].applied = @ + 1]],
     db |-> r.db, exc |-> r.exc,
     call |-> IF r.call = << >> THEN s.call ELSE r.call,
     fills |-> IF r.exc # "none" THEN s.fills
               ELSE Append(s.fills,
                      [order_id |-> order.order_id, market_id |-> order.market_id,
                       side |-> order.side, fill_price |-> fill_price,
                       qty_shares |-> order.qty_shares, trade_id |-> r.trade_id])]

\* one pass of the loop of poll_fills
PollSide(s, market_id, side, snapshot) ==
    IF s.exc # "none" \/ OrderAt(s.e, << market_id, side >>) = {} THEN s
    ELSE The({
            IF ~should_fill(order.side, order.price, snapshot, EpsUnits).fill
               \/ IsNone(should_fill(order.side, order.price, snapshot, EpsUnits).fill_price)
            THEN s
            ELSE The({EngineAfterFill(s, order, Val(snapshot.last_trade_price), r) :
                        r \in {handle_fill(s.db, order,
                                  Val(should_fill(order.side, order.price, snapshot,
                                                  EpsUnits).fill_price))}}) :
            order \in {The(OrderAt(s.e, << market_id, side >>))}})

\* snapshots refresh_market passes on (bid and ask present, 0 <= bid <= ask,
\* 0 < mid < 1): a wide book and a locked one
QuotedSnapshots ==
    {[best_bid |-> Some(0), best_ask |-> Some(PriceDen)],
     [best_bid |-> Some(1), best_ask |-> Some(1)]}

QuotePrices == {Some(p) : p \in 1..PriceDen}

\* the decisions place_quotes is called with: a pause, and quotes on the
\* price grid with either side enabled or not
Decisions ==
    {[bid_price |-> None, ask_price |-> None, place_bid |-> FALSE,
      place_ask |-> FALSE, pause_reason |-> Some("spread_too_wide")]}
    \cup [bid_price : QuotePrices, ask_price : QuotePrices, place_bid : BOOLEAN,
          place_ask : BOOLEAN, pause_reason : {None}]

\* last_trade_price of the snapshot poll_fills is called with
LastTradePrices == {None} \cup {Some(p) : p \in 0..(PriceDen + 1)}

\* the script creates the Database and its portfolio before the engine
mm_start ==
    /\ mm = Off /\ loop = Off /\ conc = Off
    /\ portfolio # << >>
    /\ mm' = EngineStart
    /\ UNCHANGED << trades, portfolio, last, hist, loop, conc, call >>

\* the bid placed without the test against best_ask
place_quotes_without_cross_test(market_id, snapshot, decision) ==
    LET e == Book(mm)
        d1 == decision
        d2 == IF ~IsNone(snapshot.best_bid) /\ ~IsNone(d1.ask_price)
                 /\ Val(d1.ask_price) <= Val(snapshot.best_bid)
              THEN [d1 EXCEPT !.place_ask = FALSE,
                              !.pause_reason = Some("ask_crosses_bid")]
              ELSE d1
        e1 == IF d2.place_bid /\ ~IsNone(d2.bid_price)
              THEN upsert_order(e, market_id, "buy", Val(d2.bid_price))
              ELSE cancel_order(e, market_id, "buy")
        e2 == IF d2.place_ask /\ ~IsNone(d2.ask_price)
              THEN upsert_order(e1, market_id, "sell", Val(d2.ask_price))
              ELSE cancel_order(e1, market_id, "sell")
        after == IF ~IsNone(decision.pause_reason) THEN cancel_market(e, market_id)
                 ELSE IF ~decision.place_bid /\ ~decision.place_ask
                 THEN cancel_market(e, market_id)
                 ELSE e2
    IN  /\ mm.pc = "run"
        /\ after.order_seq <= MaxOrders
        /\ mm' = [mm EXCEPT !.op = "place_quotes", !.orders = after.orders,
                            !.order_seq = after.order_seq, !.log = after.log,
                            !.fills = << >>, !.arg = << market_id, snapshot >>]
        /\ UNCHANGED << trades, portfolio, last, hist, loop, conc, call >>

\* MarketMakingEngine.place_quotes
place_quotes(market_id, snapshot, decision) ==
    LET e == Book(mm)
        d1 == IF ~IsNone(snapshot.best_ask) /\ ~IsNone(decision.bid_price)
                 /\ Val(decision.bid_price) >= Val(snapshot.best_ask)
              THEN [decision EXCEPT !.place_bid = FALSE,
                                    !.pause_reason = Some("bid_crosses_ask")]
              ELSE decision
        d2 == IF ~IsNone(snapshot.best_bid) /\ ~IsNone(d1.ask_price)
                 /\ Val(d1.ask_price) <= Val(snapshot.best_bid)
              THEN [d1 EXCEPT !.place_ask = FALSE,
                              !.pause_reason = Some("ask_crosses_bid")]
              ELSE d1
        e1 == IF d2.place_bid /\ ~IsNone(d2.bid_price)
              THEN upsert_order(e, market_id, "buy", Val(d2.bid_price))
              ELSE cancel_order(e, market_id, "buy")
        e2 == IF d2.place_ask /\ ~IsNone(d2.ask_price)
              THEN upsert_order(e1, market_id, "sell", Val(d2.ask_price))
              ELSE cancel_order(e1, market_id, "sell")
        after == IF ~IsNone(decision.pause_reason) THEN cancel_market(e, market_id)
                 ELSE IF ~decision.place_bid /\ ~decision.place_ask
                 THEN cancel_market(e, market_id)
                 ELSE e2
    IN  /\ mm.pc = "run"
        /\ after.order_seq <= MaxOrders
        /\ mm' = [mm EXCEPT !.op = "place_quotes", !.orders = after.orders,
                            !.order_seq = after.order_seq, !.log = after.log,
                            !.fills = << >>, !.arg = << market_id, snapshot >>]
        /\ UNCHANGED << trades, portfolio, last, hist, loop, conc, call >>

poll_fills(market_id, snapshot) ==
    /\ mm.pc = "run"
    /\ \E s0 \in {[e |-> Book(mm), db |-> Committed, exc |-> "none", call |-> last,
                    fills |-> << >>]} :
       \E s1 \in {PollSide(s0, market_id, "buy", snapshot)} :
       \E s2 \in {PollSide(s1, market_id, "sell", snapshot)} :
          /\ Len(s2.db.trades) <= MaxRows
          /\ trades' = s2.db.trades
          /\ portfolio' = s2.db.portfolio
          /\ last' = s2.call
          /\ mm' = [mm EXCEPT !.pc = IF s2.exc # "none" THEN "raised" ELSE "run",
                              !.op = "poll_fills", !.orders = s2.e.orders,
                              !.order_seq = s2.e.order_seq, !.log = s2.e.log,
                              !.fills = s2.fills, !.arg = << >>]
    /\ UNCHANGED << hist, loop, conc, call >>

\* lots the database holds before the run
SeedLots == {<< "BUY", 2 * Unit, 1 >>, << "SELL", 2 * Unit, 1 >>}

NextEngine ==
    \/ /\ initialize_portfolio(Budget)
       /\ mm = Off
       /\ UNCHANGED aux
    \/ /\ \E lot \in SeedLots :
            add_trade(GoodMarket, lot[1], lot[2], lot[3], GoodWallet,
                      "whale_ref", "whale_ref")
       /\ mm = Off /\ portfolio # << >> /\ trades = << >>
       /\ UNCHANGED aux
    \/ mm_start
    \/ \E m \in EngineMarkets, s \in QuotedSnapshots, d \in Decisions :
            place_quotes(m, s, d)
    \/ \E m \in EngineMarkets, ltp \in LastTradePrices :
            poll_fills(m, [last_trade_price |-> ltp])

SpecEngine == Init /\ [][NextEngine]_vars

\* --------------------------- SpecQuotes: market_making_strategy.py, called
\* Prices of a quote are on a grid of QOne points to 1.0; bids and asks are
\* even points, so that their mid is a point; tick sizes are even, so that
\* half a tick is a point.  USD exposures are whole numbers.
MaxKTicks == 2

QOne == 8

\* PRICE_EPS = 1e-9, in whole points
PriceEpsPoints == 0

QuoteDecision(bid_price, ask_price, place_bid, place_ask, pause_reason) ==
    [bid_price |-> bid_price, ask_price |-> ask_price, place_bid |-> place_bid,
     place_ask |-> place_ask, pause_reason |-> pause_reason]

compute_mid(best_bid, best_ask, mid_price) ==
    IF ~IsNone(best_bid) /\ ~IsNone(best_ask)
    THEN Some((Val(best_bid) + Val(best_ask)) \div 2)
    ELSE mid_price

validate_snapshot(snapshot, eps) ==
    IF IsNone(snapshot.best_bid) \/ IsNone(snapshot.best_ask)
    THEN Some("missing_bid_ask")
    ELSE IF Val(snapshot.best_bid) < 0 \/ Val(snapshot.best_ask) < 0
    THEN Some("negative_bid_ask")
    ELSE IF Val(snapshot.best_bid) > Val(snapshot.best_ask) + eps
    THEN Some("bid_gt_ask")
    ELSE LET mid == compute_mid(snapshot.best_bid, snapshot.best_ask, snapshot.mid_price)
         IN  IF IsNone(mid) THEN Some("missing_mid")
             ELSE IF ~IsNone(snapshot.mid_price)
                     /\ Abs(Val(snapshot.mid_price) - Val(mid)) > eps
             THEN Some("mid_mismatch")
             ELSE IF Val(mid) <= 0 \/ Val(mid) >= QOne
             THEN Some("mid_out_of_range")
             ELSE None

\* (best_ask - best_bid) / mid as the fraction << numerator, denominator >>
compute_spread_pct(best_bid, best_ask, mid) ==
    IF IsNone(best_bid) \/ IsNone(best_ask) \/ IsNone(mid) THEN None
    ELSE IF Val(mid) = 0 THEN None
    ELSE Some(<< Val(best_ask) - Val(best_bid), Val(mid) >>)

\* a > b for the fractions a and b; the denominator of b is positive
FracGreater(a, b) ==
    IF a[2] > 0 THEN a[1] * b[2] > b[1] * a[2] ELSE a[1] * b[2] < b[1] * a[2]

\* a whole tick, not half of one, at k_ticks = 0
quote_prices_whole_tick(mid, tick_size, k_ticks, skew_ticks, skew_direction) ==
    LET base == IF k_ticks = 0 THEN tick_size ELSE k_ticks * tick_size
        skew == skew_ticks * tick_size * skew_direction
    IN  << mid - base - skew, mid + base - skew >>

quote_prices(mid, tick_size, k_ticks, skew_ticks, skew_direction) ==
    LET base == IF k_ticks = 0 THEN tick_size \div 2 ELSE k_ticks * tick_size
        skew == skew_ticks * tick_size * skew_direction
    IN  << mid - base - skew, mid + base - skew >>

\* the test of the ask against 1 left out
invalid_quote_bounds_bid_only(bid, ask) == bid <= 0 \/ bid >= ask

\* "if bid <= 0 or ask >= 1 or bid >= ask"
invalid_quote_bounds(bid, ask) == bid <= 0 \/ ask >= QOne \/ bid >= ask

\* a cap that binds only above it
cap_reached_above(exposure, cap) == exposure > cap

\* "exposure >= cap - PRICE_EPS"
cap_reached(exposure, cap) == exposure >= cap - PriceEpsPoints

\* P: tick_size, k_ticks, max_spread_pct, max_per_market_exposure_usd,
\* max_total_exposure_usd, skew_ticks
decide_quotes(snapshot, inventory, P) ==
    LET mid == compute_mid(snapshot.best_bid, snapshot.best_ask, snapshot.mid_price)
        spread_pct == compute_spread_pct(snapshot.best_bid, snapshot.best_ask, mid)
        net == inventory.net_usd
        gross == inventory.gross_usd
        skew_direction == IF net > 0 THEN 1 ELSE IF net < 0 THEN 0 - 1 ELSE 0
        q == quote_prices(Val(mid), P.tick_size, P.k_ticks, P.skew_ticks, skew_direction)
        bid == q[1]
        ask == q[2]
        market_capped == cap_reached(Abs(net), P.max_per_market_exposure_usd)
        total_capped == cap_reached(gross, P.max_total_exposure_usd)
        place_bid == ~(market_capped /\ net > 0)
                     /\ ~(total_capped /\ (net > 0 \/ ~(net < 0)))
        place_ask == ~(market_capped /\ ~(net > 0) /\ net < 0)
                     /\ ~(total_capped /\ ~(net > 0))
    IN  IF IsNone(mid)
        THEN QuoteDecision(None, None, FALSE, FALSE, Some("missing_mid"))
        ELSE IF ~IsNone(P.max_spread_pct) /\ ~IsNone(spread_pct)
                /\ FracGreater(Val(spread_pct), Val(P.max_spread_pct))
        THEN QuoteDecision(None, None, FALSE, FALSE, Some("spread_too_wide"))
        ELSE IF P.max_per_market_exposure_usd <= 0 \/ P.max_total_exposure_usd <= 0
        THEN QuoteDecision(None, None, FALSE, FALSE, Some("invalid_exposure_caps"))
        ELSE IF invalid_quote_bounds(bid, ask)
        THEN QuoteDecision(None, None, FALSE, FALSE, Some("invalid_quote_bounds"))
        ELSE QuoteDecision(Some(bid), Some(ask), place_bid, place_ask, None)

\* MarketMakingEngine.build_quote on the inventory the ledger gives; stale:
\* the oldest lot of the market is held longer than max_hold_time_sec
build_quote(snapshot, inventory, stale, P) ==
    LET d0 == decide_quotes(snapshot, inventory, P)
        d1 == IF stale
              THEN IF inventory.net_usd > 0 THEN [d0 EXCEPT !.place_bid = FALSE]
                   ELSE [d0 EXCEPT !.place_ask = FALSE]
              ELSE d0
    IN  IF inventory.net_usd <= 0 THEN [d1 EXCEPT !.place_ask = FALSE] ELSE d1

\* MarketMakingEngine.refresh_market on the snapshot the provider returned
refresh_market(snapshot, inventory, stale, P) ==
    LET reason == validate_snapshot(snapshot, PriceEpsPoints)
    IN  IF ~IsNone(reason) THEN QuoteDecision(None, None, FALSE, FALSE, reason)
        ELSE build_quote(snapshot, inventory, stale, P)

\* bids and asks: absent, negative, 0, ..., 1
BookPrices == {None} \cup {Some(2 * i - 2) : i \in 0..((QOne \div 2) + 1)}

Snapshots ==
    [best_bid : BookPrices, best_ask : BookPrices, mid_price : {None, Some(QOne \div 2)}]

\* short, flat and long in the market; the gross exposure of all markets
Inventories == [net_usd : {0 - 2, 0, 2}, gross_usd : {2, 4}]

Params ==
    [tick_size : {0, 2, 4}, k_ticks : 0..MaxKTicks, skew_ticks : {0, 1},
     max_spread_pct : {None, Some(<< 3, 2 >>)},
     max_per_market_exposure_usd : {0, 2, 3},
     max_total_exposure_usd : {0, 4}]

\* a call with arguments from the sets above, and what it returned
call_decide_quotes ==
    /\ call = Off /\ loop = Off /\ conc = Off /\ mm = Off
    /\ \E snapshot \in Snapshots, inventory \in Inventories, P \in Params :
          call' = [pc |-> "returned", fn |-> "decide_quotes", snapshot |-> snapshot,
                   inventory |-> inventory, stale |-> FALSE, P |-> P,
                   decision |-> decide_quotes(snapshot, inventory, P)]
    /\ UNCHANGED << trades, portfolio, last, hist, loop, conc, mm >>

call_refresh_market ==
    /\ call = Off /\ loop = Off /\ conc = Off /\ mm = Off
    /\ \E snapshot \in Snapshots, inventory \in Inventories, stale \in BOOLEAN,
          P \in Params :
          call' = [pc |-> "returned", fn |-> "refresh_market", snapshot |-> snapshot,
                   inventory |-> inventory, stale |-> stale, P |-> P,
                   decision |-> refresh_market(snapshot, inventory, stale, P)]
    /\ UNCHANGED << trades, portfolio, last, hist, loop, conc, mm >>

NextQuotes ==
    \/ call_decide_quotes
    \/ call_refresh_market

SpecQuotes == Init /\ [][NextQuotes]_vars

\* -------------------------------- SpecFill: fill_model.py, called
\* Prices in units of 1e-9, the tolerance of the crossing test, around an
\* order price: the last trade price is up to MaxNano units away
MaxNano == 10

CrossingEps == 1

\* order prices the engine can rest at, in units of 1e-9 from some price
OrderNanos == 2..(MaxNano - 2)

LastTradeNanos == {None} \cup {Some(p) : p \in 0..MaxNano}

call_should_fill ==
    /\ call = Off /\ loop = Off /\ conc = Off /\ mm = Off
    /\ \E order_side \in Sides, order_price \in OrderNanos, ltp \in LastTradeNanos :
          call' = [pc |-> "returned", fn |-> "should_fill", order_side |-> order_side,
                   order_price |-> order_price,
                   snapshot |-> [last_trade_price |-> ltp],
                   decision |-> should_fill(order_side, order_price,
                                            [last_trade_price |-> ltp], CrossingEps)]
    /\ UNCHANGED << trades, portfolio, last, hist, loop, conc, mm >>

NextFill == call_should_fill

SpecFill == Init /\ [][NextFill]_vars

\* ------------------------- SpecProb: fill_model.py, ProbabilisticFillModel

MaxDraws == 2

\* probabilities and rolls are in units of 1/ProbScale
ProbScale == 10000

Seeds == {42, 7}

\* random.Random(seed).random(): the first draws of the generator for the
\* seeds used, in units of 1/ProbScale (rounded down)
RandomStream(seed) ==
    IF seed = 42 THEN << 6394, 250, 2750, 2232, 7364 >>
                 ELSE << 3238, 1508, 6509, 724, 5358 >>

Random(seed) == [seed |-> seed, n |-> 0]

rng_random(rng) ==
    [roll |-> RandomStream(rng.seed)[rng.n + 1], rng |-> [rng EXCEPT !.n = @ + 1]]

\* math.exp(-alpha * dist_ticks) for the default alpha = 1.5, in units of
\* 1/ProbScale (rounded down)
ExpDecay(dist_ticks) ==
    IF dist_ticks < 6 THEN << 10000, 2231, 497, 111, 24, 5 >>[dist_ticks + 1] ELSE 0

\* a variant that seeds the generator from the process state instead of the
\* seed argument, as random.Random() without a seed does
ProbabilisticFillModel_unseeded(P, seed) ==
    [tick_size |-> P.tick_size, base_liquidity |-> P.base_liquidity,
     p_max |-> P.p_max, rng |-> Random(IF call = Off THEN 42 ELSE 7)]

\* ProbabilisticFillModel.__init__
ProbabilisticFillModel(P, seed) ==
    [tick_size |-> P.tick_size, base_liquidity |-> P.base_liquidity,
     p_max |-> P.p_max, rng |-> Random(seed)]

\* snapshot.last_trade_price or snapshot.mid_price: None and 0.0 are both falsy
ref_price_of(snapshot) ==
    IF snapshot.last_trade_price # None /\ Val(snapshot.last_trade_price) # 0
    THEN snapshot.last_trade_price
    ELSE snapshot.mid_price

\* max(0.0, min(1.0, fill_price))
clamp01(p) == Max(0, Min(QOne, p))

\* (order_price + ref_price) / 2.0, clamped; prices are even grid points, so
\* the midpoint is a grid point
prob_fill_price(order_price, ref_price) == clamp01((order_price + ref_price) \div 2)

\* ProbabilisticFillModel.should_fill: the decision and the model afterwards
\* (the generator advances only when a reference price exists); the argument
\* t is not read by the code
prob_should_fill(model, order_side, order_price, snapshot) ==
    LET ref == ref_price_of(snapshot) IN
    IF ref = None
    THEN [decision |-> [fill |-> FALSE, fill_price |-> None, reason |-> "no_ref_price"],
          model |-> model]
    ELSE LET dist       == Abs(order_price - Val(ref))
             dist_ticks == IF model.tick_size > 0 THEN dist \div model.tick_size ELSE 0
             p_raw      == (model.base_liquidity * ExpDecay(dist_ticks)) \div ProbScale
             p          == Min(model.p_max, p_raw)
             drawn      == rng_random(model.rng)
             after      == [model EXCEPT !.rng = drawn.rng]
         IN  IF ~(drawn.roll < p)
             THEN [decision |-> [fill |-> FALSE, fill_price |-> None,
                                 reason |-> "prob_no_fill"],
                   model |-> after]
             ELSE [decision |-> [fill |-> TRUE,
                                 fill_price |-> Some(prob_fill_price(order_price, Val(ref))),
                                 reason |-> "prob_fill"],
                   model |-> after]

ProbParams == [tick_size : {0, 2}, base_liquidity : {1000, ProbScale},
               p_max : {2000, ProbScale}]

ProbInputs ==
    [order_side : Sides, order_price : {2, 4, QOne + 4},
     snapshot : [last_trade_price : {None, Some(0), Some(2), Some(QOne)},
                 mid_price : {None, Some(4)}]]

\* the first instance is built
prob_new_a ==
    /\ call = Off /\ loop = Off /\ conc = Off /\ mm = Off
    /\ \E seed \in Seeds, P \in ProbParams :
          call' = [pc |-> "prob", seed |-> seed, P |-> P,
                   a |-> ProbabilisticFillModel(P, seed), b |-> None,
                   inputs |-> << >>, outA |-> << >>, outB |-> << >>]
    /\ UNCHANGED << trades, portfolio, last, hist, loop, conc, mm >>

\* a second instance is built, at any later time, with the same seed and
\* parameters
prob_new_b ==
    /\ call # Off /\ call.pc = "prob" /\ call.b = None
    /\ call' = [call EXCEPT !.b = Some(ProbabilisticFillModel(call.P, call.seed))]
    /\ UNCHANGED << trades, portfolio, last, hist, loop, conc, mm >>

\* the first instance is asked about one more order
prob_call_a ==
    /\ call # Off /\ call.pc = "prob" /\ Len(call.inputs) < MaxDraws
    /\ \E inp \in ProbInputs :
         \E r \in {prob_should_fill(call.a, inp.order_side, inp.order_price, inp.snapshot)} :
            call' = [call EXCEPT !.a = r.model,
                                 !.inputs = Append(@, inp),
                                 !.outA = Append(@, r.decision)]
    /\ UNCHANGED << trades, portfolio, last, hist, loop, conc, mm >>

\* the second instance is given the next input of the same sequence
prob_call_b ==
    /\ call # Off /\ call.pc = "prob" /\ call.b # None
    /\ Len(call.outB) < Len(call.inputs)
    /\ \E inp \in {call.inputs[Len(call.outB) + 1]} :
         \E r \in {prob_should_fill(Val(call.b), inp.order_side, inp.order_price,
                                    inp.snapshot)} :
            call' = [call EXCEPT !.b = Some(r.model),
                                 !.outB = Append(@, r.decision)]
    /\ UNCHANGED << trades, portfolio, last, hist, loop, conc, mm >>

NextProb == prob_new_a \/ prob_new_b \/ prob_call_a \/ prob_call_b

SpecProb == Init /\ [][NextProb]_vars

\* ------------------- SpecDiag: execution_diagnostics.py, ExecutionDiagnostics

MaxRecords == 2

\* prices are points of the QOne grid, timestamps are seconds, ratios are
\* pairs << numerator, denominator >> as the division receives them
DiagEps == 0

PriceFields ==
    {"intended_limit_price", "whale_entry_ref_price", "best_bid", "best_ask", "mid_price",
     "last_trade_price", "fill_price"}

DerivedFields ==
    {"spread_abs", "spread_pct", "half_spread_pct", "latency_ms", "quote_slippage_pct",
     "baseline_slippage_pct", "spread_crossed", "impact_proxy_pct"}

\* the checks of compute_derived_metrics that raise ValueError
RecordRejected(p) ==
    LET both == p.best_bid # None /\ p.best_ask # None IN
    \/ \E f \in PriceFields : p[f] # None /\ (Val(p[f]) < 0 \/ Val(p[f]) > QOne)
    \/ both /\ Val(p.best_bid) > Val(p.best_ask) + DiagEps
    \/ both /\ p.mid_price # None
            /\ Abs(2 * Val(p.mid_price) - (Val(p.best_bid) + Val(p.best_ask))) > 2 * DiagEps
    \/ both /\ Val(p.best_ask) - Val(p.best_bid) < 0 - DiagEps

\* OrderExecutionRecord.compute_derived_metrics on a payload that passes the
\* checks: a field is assigned only inside its if, otherwise it keeps the
\* value the payload gave it
compute_derived_metrics(p) ==
    LET both == p.best_bid # None /\ p.best_ask # None
        mid == IF both /\ p.mid_price = None
               THEN Some((Val(p.best_bid) + Val(p.best_ask)) \div 2) ELSE p.mid_price
        spread_abs == IF both THEN Some(Val(p.best_ask) - Val(p.best_bid)) ELSE p.spread_abs
        mid_pos == mid # None /\ Val(mid) > 0
        latency_base == IF p.fill_ts # None THEN p.fill_ts ELSE p.order_sent_ts
        has_snapshot == mid # None /\ Val(mid) # 0 /\ both
        filled == p.fill_price # None /\ p.fill_price_source = "fill"
        has_ref == p.whale_entry_ref_price # None /\ Val(p.whale_entry_ref_price) # 0
    IN  [p EXCEPT
          !.mid_price = mid,
          !.spread_abs = spread_abs,
          !.spread_pct = IF mid_pos /\ spread_abs # None
                         THEN Some(<< Val(spread_abs), Val(mid) >>) ELSE @,
          !.half_spread_pct = IF p.best_ask # None /\ mid_pos
                              THEN Some(<< Val(p.best_ask) - Val(mid), Val(mid) >>) ELSE @,
          !.latency_ms = IF latency_base # None /\ p.whale_signal_ts # None
                         THEN Some((Val(latency_base) - Val(p.whale_signal_ts)) * 1000)
                         ELSE @,
          !.quote_slippage_pct = IF filled /\ has_snapshot
                                 THEN Some(<< Val(p.fill_price) - Val(mid), Val(mid) >>)
                                 ELSE @,
          !.baseline_slippage_pct =
              IF filled /\ has_ref
              THEN Some(<< Val(p.fill_price) - Val(p.whale_entry_ref_price),
                           Val(p.whale_entry_ref_price) >>)
              ELSE @,
          !.spread_crossed =
              IF filled /\ both
              THEN IF p.side = "buy"
                   THEN Some(Val(p.fill_price) >= Val(p.best_ask) - DiagEps)
                   ELSE Some(Val(p.fill_price) <= Val(p.best_bid) + DiagEps)
              ELSE @,
          !.impact_proxy_pct =
              IF filled /\ both
              THEN IF p.side = "buy"
                   THEN IF Val(p.best_ask) > 0
                        THEN Some(<< Val(p.fill_price) - Val(p.best_ask), Val(p.best_ask) >>)
                        ELSE @
                   ELSE IF Val(p.best_bid) > 0
                        THEN Some(<< Val(p.best_bid) - Val(p.fill_price), Val(p.best_bid) >>)
                        ELSE @
              ELSE @]

\* a variant of _validate that logs and drops in live mode as well
diag_validate_never_raises(live_mode, payload) ==
    IF RecordRejected(payload)
    THEN [kind |-> "None"]
    ELSE [kind |-> "record", rec |-> compute_derived_metrics(payload)]

\* ExecutionDiagnostics._validate
diag_validate(live_mode, payload) ==
    IF RecordRejected(payload)
    THEN IF live_mode THEN [kind |-> "ValidationError"] ELSE [kind |-> "None"]
    ELSE [kind |-> "record", rec |-> compute_derived_metrics(payload)]

KeyOf(r) == << r.run_id, r.order_id >>

\* a conflict clause that updates every column
KeptColumns_none == {}

\* the columns the SET list of the conflict clause leaves out (run_id and
\* order_id are the conflict key, equal in both rows)
KeptColumns == {"market_id", "side", "order_type", "created_at"}

\* a variant without the UNIQUE(run_id, order_id) conflict clause
diag_upsert_plain_insert(records, record) == records \cup {record}

\* ExecutionDiagnostics._upsert: INSERT ... ON CONFLICT(run_id, order_id) DO
\* UPDATE SET every column but run_id, order_id, market_id, side, order_type
\* and created_at
diag_upsert(records, record) ==
    IF \E old \in records : KeyOf(old) = KeyOf(record)
    THEN {IF KeyOf(old) = KeyOf(record)
          THEN [c \in DOMAIN record |-> IF c \in KeptColumns THEN old[c] ELSE record[c]]
          ELSE old :
             old \in records}
    ELSE records \cup {record}

\* record_order_sent and record_fill have the same body
diag_record(d, fn, payload) ==
    The({IF v.kind = "record"
         THEN [d EXCEPT !.records = diag_upsert(@, v.rec), !.fn = fn, !.ret = v]
         ELSE [d EXCEPT !.fn = fn, !.ret = v] :
            v \in {diag_validate(d.live_mode, payload)}})

\* the WHERE clause of export_slippage_csv
ExportSelected(row, run_id, only_filled, require_fill_source, require_snapshot) ==
    /\ run_id # "" => row.run_id = run_id
    /\ only_filled => row.fill_price # None
    /\ require_fill_source => row.fill_price_source = "fill"
    /\ require_snapshot =>
          (row.mid_price # None /\ row.best_bid # None /\ row.best_ask # None)

\* the exclusion reason the second pass of export_slippage_csv counts a row
\* under ("" when it counts it under none)
ExclusionReason(row, run_id) ==
    IF run_id # "" /\ row.run_id # run_id THEN ""
    ELSE IF row.fill_price = None THEN "not_filled"
    ELSE IF row.fill_price_source # "fill" THEN "non_fill_source"
    ELSE IF row.mid_price = None \/ row.best_bid = None \/ row.best_ask = None
         THEN "missing_snapshot"
    ELSE ""

\* a variant whose second pass has no continue after a count
ExclusionCount_no_continue(records, run_id, reason) ==
    Cardinality({row \in records :
        /\ ~(run_id # "" /\ row.run_id # run_id)
        /\ \/ reason = "not_filled" /\ row.fill_price = None
           \/ reason = "non_fill_source" /\ row.fill_price_source # "fill"
           \/ reason = "missing_snapshot"
                /\ (row.mid_price = None \/ row.best_bid = None \/ row.best_ask = None)})

ExclusionCount(records, run_id, reason) ==
    Cardinality({row \in records : ExclusionReason(row, run_id) = reason})

\* export_slippage_csv(..., return_stats=True): the rows written (their order
\* by updated_at is not modelled) and the exclusion counts
export_slippage_csv_result(records, run_id, only_filled, require_fill_source, require_snapshot) ==
    [kind |-> "export", run_id |-> run_id,
     defaults |-> only_filled /\ require_fill_source /\ require_snapshot,
     rows |-> {row \in records : ExportSelected(row, run_id, only_filled,
                                                require_fill_source, require_snapshot)},
     exclusion_stats |->
        [reason \in {"not_filled", "non_fill_source", "missing_snapshot"} |->
            ExclusionCount(records, run_id, reason)]]

DiagKeys == {<< "r1", "o1" >>, << "r1", "o2" >>, << "r2", "o1" >>}

DiagSnapshots ==
    {[best_bid |-> None, best_ask |-> None, mid_price |-> None],
     [best_bid |-> Some(2), best_ask |-> Some(6), mid_price |-> None],
     [best_bid |-> Some(6), best_ask |-> Some(2), mid_price |-> None]}

NoFill == [fill_ts |-> None, fill_price |-> None, fill_price_source |-> "unknown",
           filled_shares |-> None]

DiagFills ==
    {[fill_ts |-> Some(3), fill_price |-> Some(6), fill_price_source |-> src,
      filled_shares |-> Some(1)] : src \in {"fill", "quote"}}

\* a payload: the whale reference and no derived value, or no whale
\* reference and derived values given by the caller
DiagPayload(key, side, snap, fill, supplied) ==
    [run_id |-> key[1], order_id |-> key[2], side |-> side,
     best_bid |-> snap.best_bid, best_ask |-> snap.best_ask, mid_price |-> snap.mid_price,
     whale_signal_ts |-> IF supplied THEN None ELSE Some(0),
     whale_entry_ref_price |-> IF supplied THEN None ELSE Some(4),
     intended_limit_price |-> None, last_trade_price |-> None,
     order_sent_ts |-> Some(1),
     fill_ts |-> fill.fill_ts, fill_price |-> fill.fill_price,
     fill_price_source |-> fill.fill_price_source, filled_shares |-> fill.filled_shares,
     spread_abs |-> IF supplied THEN Some(1) ELSE None,
     spread_pct |-> None,
     half_spread_pct |-> None,
     latency_ms |-> IF supplied THEN Some(7) ELSE None,
     quote_slippage_pct |-> IF supplied THEN Some(<< 1, 1 >>) ELSE None,
     baseline_slippage_pct |-> None,
     spread_crossed |-> IF supplied THEN Some(TRUE) ELSE None,
     impact_proxy_pct |-> None]

DiagPayloads(fills) ==
    {DiagPayload(key, "buy", snap, fill, supplied) :
        key \in DiagKeys, snap \in DiagSnapshots, fill \in fills, supplied \in BOOLEAN}
    \cup
    {DiagPayload(key, "sell", [best_bid |-> Some(2), best_ask |-> Some(6),
                               mid_price |-> None], fill, FALSE) :
        key \in DiagKeys, fill \in {f \in fills : f.fill_price_source = "fill"}}

\* ExecutionDiagnostics.__init__
diag_new ==
    /\ call = Off /\ loop = Off /\ conc = Off /\ mm = Off
    /\ \E live_mode \in BOOLEAN :
          call' = [pc |-> "diag", live_mode |-> live_mode, records |-> {},
                   fn |-> "init", ret |-> [kind |-> "none"]]
    /\ UNCHANGED << trades, portfolio, last, hist, loop, conc, mm >>

HasRoom(payload) ==
    \/ Cardinality(call.records) < MaxRecords
    \/ \E old \in call.records : KeyOf(old) = KeyOf(payload)

record_order_sent ==
    /\ call # Off /\ call.pc = "diag"
    /\ \E payload \in DiagPayloads({NoFill}) :
          /\ HasRoom(payload)
          /\ call' = diag_record(call, "record_order_sent", payload)
    /\ UNCHANGED << trades, portfolio, last, hist, loop, conc, mm >>

record_fill ==
    /\ call # Off /\ call.pc = "diag"
    /\ \E payload \in DiagPayloads(DiagFills) :
          /\ HasRoom(payload)
          /\ call' = diag_record(call, "record_fill", payload)
    /\ UNCHANGED << trades, portfolio, last, hist, loop, conc, mm >>

export_slippage_csv ==
    /\ call # Off /\ call.pc = "diag"
    /\ \E run_id \in {"", "r1", "r2"}, flag \in BOOLEAN :
          call' = [call EXCEPT !.fn = "export_slippage_csv",
                               !.ret = export_slippage_csv_result(call.records, run_id,
                                                                  flag, flag, flag)]
    /\ UNCHANGED << trades, portfolio, last, hist, loop, conc, mm >>

NextDiag == diag_new \/ record_order_sent \/ record_fill \/ export_slippage_csv

SpecDiag == Init /\ [][NextDiag]_vars

\* ---------- SpecUpsert: ExecutionDiagnostics._upsert, the stored columns
\* The table row of a record: the columns of the validated record, created_at
\* and updated_at.  The clock of _upsert counts the events.
MaxClock == 3

\* the record r with the fields of extra added or replaced
Ext(r, extra) ==
    [c \in DOMAIN r \cup DOMAIN extra |-> IF c \in DOMAIN extra THEN extra[c] ELSE r[c]]

\* ExecutionDiagnostics._to_row: spread_crossed is stored as 0 / 1 / NULL
to_row(record) ==
    [record EXCEPT !.spread_crossed =
        IF @ = None THEN None ELSE IF Val(@) THEN Some(1) ELSE Some(0)]

\* the parameters of the INSERT: {**row, created_at: now, updated_at: now}
upsert_params(record, now) ==
    Ext(to_row(record), [created_at |-> now, updated_at |-> now])

UpsertKeys == {<< "r1", "o1" >>, << "r1", "o2" >>}

FullSnapshot == [best_bid |-> Some(2), best_ask |-> Some(6), mid_price |-> None]

\* an order-sent payload (no fill, no trade) or a fill payload
UpsertPayloads ==
    {Ext(DiagPayload(key, side, FullSnapshot, fill, FALSE),
         [market_id |-> market_id, order_type |-> order_type,
          trade_id |-> IF fill = NoFill THEN None ELSE Some(1),
          qty_shares |-> IF fill = NoFill THEN 2 ELSE 1]) :
        key \in UpsertKeys, side \in Sides, market_id \in {"m1", "m2"},
        order_type \in {"limit", "market"},
        fill \in {NoFill} \cup {f \in DiagFills : f.fill_price_source = "fill"}}

\* ExecutionDiagnostics.__init__ on an empty table
upsert_new ==
    /\ call = Off /\ loop = Off /\ conc = Off /\ mm = Off
    /\ call' = [pc |-> "upsert", live_mode |-> TRUE, records |-> {}, now |-> 0,
                fn |-> "init", ret |-> [kind |-> "none"], first |-> {}]
    /\ UNCHANGED << trades, portfolio, last, hist, loop, conc, mm >>

\* record_order_sent / record_fill: _validate, then _upsert at the time now;
\* first keeps the row each key got from its first event, for the properties
upsert_event(fn) ==
    /\ call # Off /\ call.pc = "upsert" /\ call.now < MaxClock
    /\ \E payload \in UpsertPayloads :
       \E v \in {diag_validate(call.live_mode, payload)} :
          call' = IF v.kind # "record" THEN [call EXCEPT !.fn = fn, !.ret = v]
                  ELSE [call EXCEPT
                          !.now = @ + 1, !.fn = fn, !.ret = v,
                          !.records = diag_upsert(@, upsert_params(v.rec, call.now + 1)),
                          !.first = IF \E f \in @ : KeyOf(f) = KeyOf(v.rec) THEN @
                                    ELSE @ \cup {upsert_params(v.rec, call.now + 1)}]
    /\ UNCHANGED << trades, portfolio, last, hist, loop, conc, mm >>

NextUpsert ==
    \/ upsert_new
    \/ upsert_event("record_order_sent")
    \/ upsert_event("record_fill")

SpecUpsert == Init /\ [][NextUpsert]_vars

\* ------- SpecTick: run_market_making_experiment.py, the loop of main
\* The engine on the ledger and the diagnostics table: each pass of the loop
\* is refresh_market, place_quotes and poll_fills for one market.  Prices are
\* points of the QOne grid; the clock counts the passes.
MaxTicks == 3

\* quote_size_usd: an amount every price point inside (0, 1) divides, so that
\* compute_shares is exact
TickQuoteSizeUsd == LCMUpTo(QOne - 1)

TickBankroll == 4 * TickQuoteSizeUsd

TickRunId == "r1"

\* the parameters main gives the engine: half a tick is one point, the skew
\* is one tick, the spread limit is 150 %, each cap is one quote
TickParams ==
    [tick_size |-> 2, k_ticks |-> 0, skew_ticks |-> 1, max_spread_pct |-> Some(<< 3, 2 >>),
     max_per_market_exposure_usd |-> TickQuoteSizeUsd,
     max_total_exposure_usd |-> TickQuoteSizeUsd]

\* the list _select_markets returns
TickMarketLists == {<< GoodMarket >>, << GoodMarket, OtherMarket >>}

\* assert_price_probability on the QOne grid
tick_price_ok(price) == ~(price < 0 \/ price > QOne)

RECURSIVE InventoryFold(_, _, _)
\* the loop of _inventory_state over the first n rows: << net, gross >> of
\* the open rows of the market
InventoryFold(rows, n, market_id) ==
    IF n = 0 THEN << 0, 0 >>
    ELSE LET rest == InventoryFold(rows, n - 1, market_id)
             pos == rows[n]
         IN  IF pos.status # "open" \/ pos.market # market_id THEN rest
             ELSE IF Upper(pos.side) = "BUY"
             THEN << rest[1] + pos.size, rest[2] + Abs(pos.size) >>
             ELSE << rest[1] - pos.size, rest[2] + Abs(pos.size) >>

RECURSIVE total_gross_exposure(_, _)
\* MarketMakingEngine._total_gross_exposure over the first n rows
total_gross_exposure(rows, n) ==
    IF n = 0 THEN 0
    ELSE total_gross_exposure(rows, n - 1)
         + (IF rows[n].status = "open" THEN Abs(rows[n].size) ELSE 0)

\* the inventory build_quote hands to decide_quotes: the net of the market
\* and the gross of all markets
tick_inventory(rows, market_id) ==
    [net_usd |-> InventoryFold(rows, Len(rows), market_id)[1],
     gross_usd |-> total_gross_exposure(rows, Len(rows))]

\* oldest_hold_sec is not None: the market has an open row
HasLot(rows, market_id) ==
    \E i \in 1..Len(rows) : rows[i].status = "open" /\ rows[i].market = market_id

\* Database.add_trade as _apply_trade calls it, on the tables db
tick_add_trade(db, market_id, size_usd, price) ==
    IF size_usd <= 0 \/ price <= 0 \/ ~tick_price_ok(price)
    THEN [db |-> db, exc |-> "ValueError", trade_id |-> None]
    ELSE [db |-> ExecAll(db,
                 << [kind |-> "insert",
                     row |-> NewOpenRow(0, market_id, "BUY", size_usd, price,
                                        MarketMakingWallet, "fill", "fill")],
                    [kind |-> "update_cash", cash_delta |-> 0 - size_usd,
                     pnl_delta |-> 0] >>),
          exc |-> "none", trade_id |-> Some(Len(db.trades) + 1)]

\* a full close that books the proceeds as the realized P&L
tick_close_trade_gross_pnl(db, trade_id, exit_price) ==
    LET row == db.trades[trade_id]
        shares_total == SharesOf(row)
        shares_to_close == compute_shares(row.size, row.price)
        proceeds == compute_proceeds(shares_to_close, Some(exit_price))
        realized_pnl == proceeds
    IN  IF \/ ~tick_price_ok(exit_price)
           \/ ~shares_consistent_ok(shares_total, row.price, row.size, EpsUnits)
        THEN [db |-> db, exc |-> "ValueError", trade_id |-> None]
        ELSE IF row.price <= 0 \/ row.size <= 0
        THEN [db |-> db, exc |-> "none", trade_id |-> Some(trade_id)]
        ELSE [db |-> ExecAll(db,
                     << [kind |-> "update_row", id |-> trade_id,
                         set |-> Cols(FullyClosedRow(row, shares_total, exit_price,
                                                     proceeds, realized_pnl, "fill", "fill"),
                                      {"status", "sell_price", "shares", "current_price",
                                       "current_value", "proceeds", "realized_pnl",
                                       "unrealized_pnl", "pnl", "exit_price_source",
                                       "fill_price_source"})],
                        [kind |-> "update_cash", cash_delta |-> proceeds,
                         pnl_delta |-> realized_pnl] >>),
              exc |-> "none", trade_id |-> Some(trade_id)]

\* Database.close_trade(trade_id, exit_price, close_size = the size of the
\* open row trade_id): a full close
tick_close_trade(db, trade_id, exit_price) ==
    LET row == db.trades[trade_id]
        shares_total == SharesOf(row)
        shares_to_close == compute_shares(row.size, row.price)
        realized_pnl == SliceRealized(row, shares_to_close, exit_price)
        proceeds == compute_proceeds(shares_to_close, Some(exit_price))
    IN  IF \/ ~tick_price_ok(exit_price)
           \/ ~shares_consistent_ok(shares_total, row.price, row.size, EpsUnits)
        THEN [db |-> db, exc |-> "ValueError", trade_id |-> None]
        ELSE IF row.price <= 0 \/ row.size <= 0
        THEN [db |-> db, exc |-> "none", trade_id |-> Some(trade_id)]
        ELSE [db |-> ExecAll(db,
                     << [kind |-> "update_row", id |-> trade_id,
                         set |-> Cols(FullyClosedRow(row, shares_total, exit_price,
                                                     proceeds, realized_pnl, "fill", "fill"),
                                      {"status", "sell_price", "shares", "current_price",
                                       "current_value", "proceeds", "realized_pnl",
                                       "unrealized_pnl", "pnl", "exit_price_source",
                                       "fill_price_source"})],
                        [kind |-> "update_cash", cash_delta |-> proceeds,
                         pnl_delta |-> realized_pnl] >>),
              exc |-> "none", trade_id |-> Some(trade_id)]

\* _apply_trade: a buy opens a lot, a sell closes the oldest open lot of the
\* market, if there is one
tick_apply_trade(db, market_id, side, size_usd, price) ==
    IF side = "buy" THEN tick_add_trade(db, market_id, size_usd, price)
    ELSE The({IF IsNone(open_pos) THEN [db |-> db, exc |-> "none", trade_id |-> None]
              ELSE tick_close_trade(db, Val(open_pos), price) :
                 open_pos \in {find_oldest_open(db, market_id, "BUY")}})

\* the payload of _record_order_sent (fill is NoFill, trade_id is None) and
\* of _handle_fill; an order id run_id-n is the number n
TickPayload(order, trade_id, fill) ==
    Ext(DiagPayload(<< TickRunId, order.order_id >>, order.side,
                    [best_bid |-> order.snapshot.best_bid,
                     best_ask |-> order.snapshot.best_ask,
                     mid_price |-> compute_mid(order.snapshot.best_bid,
                                               order.snapshot.best_ask,
                                               order.snapshot.mid_price)],
                    fill, FALSE),
        [trade_id |-> trade_id, market_id |-> order.market_id, order_type |-> "limit",
         qty_shares |-> order.qty_shares, intended_limit_price |-> Some(order.price),
         whale_signal_ts |-> None, whale_entry_ref_price |-> None,
         order_sent_ts |-> Some(order.created_at),
         last_trade_price |-> order.snapshot.last_trade_price])

\* diagnostics.record_order_sent / record_fill in live mode on the engine
\* state e: a rejected payload raises
tick_record(e, fn, payload) ==
    The({[e EXCEPT !.records = d.records,
                   !.exc = IF d.ret.kind = "ValidationError" THEN "ValidationError" ELSE @] :
            d \in {diag_record([live_mode |-> TRUE, records |-> e.records, fn |-> fn,
                                ret |-> [kind |-> "none"]], fn, payload)}})

\* _cancel_order; nothing runs after an exception
tick_cancel_order(e, market_id, side) ==
    IF e.exc # "none" THEN e
    ELSE [e EXCEPT !.orders = @ \ OrderAt(e, << market_id, side >>)]

\* the sell order left resting
tick_cancel_market_buy_only(e, market_id) == tick_cancel_order(e, market_id, "buy")

\* MarketMakingEngine.cancel_market
tick_cancel_market(e, market_id) ==
    tick_cancel_order(tick_cancel_order(e, market_id, "buy"), market_id, "sell")

\* an order is replaced whatever its price
tick_upsert_order_always(e, snapshot, market_id, side, price, now) ==
    LET existing == OrderAt(e, << market_id, side >>)
        order == [order_id |-> e.order_seq + 1, market_id |-> market_id, side |-> side,
                  price |-> price, qty_shares |-> compute_shares(TickQuoteSizeUsd, price),
                  created_at |-> now, snapshot |-> snapshot]
    IN  IF e.exc # "none" THEN e
        ELSE tick_record([e EXCEPT !.order_seq = order.order_id,
                                   !.orders = (@ \ existing) \cup {order},
                                   !.sent = Append(@, order.order_id)],
                         "record_order_sent", TickPayload(order, None, NoFill))

\* _upsert_order: "abs(existing.price - price) < 1e-9" is equality on the
\* grid; sent lists the orders _record_order_sent was called for
tick_upsert_order(e, snapshot, market_id, side, price, now) ==
    LET existing == OrderAt(e, << market_id, side >>)
        order == [order_id |-> e.order_seq + 1, market_id |-> market_id, side |-> side,
                  price |-> price, qty_shares |-> compute_shares(TickQuoteSizeUsd, price),
                  created_at |-> now, snapshot |-> snapshot]
    IN  IF e.exc # "none" THEN e
        ELSE IF \E o \in existing : Abs(o.price - price) <= PriceEpsPoints
        THEN e
        ELSE tick_record([e EXCEPT !.order_seq = order.order_id,
                                   !.orders = (@ \ existing) \cup {order},
                                   !.sent = Append(@, order.order_id)],
                         "record_order_sent", TickPayload(order, None, NoFill))

\* the decision place_quotes acts on after its two crossing tests
tick_uncrossed(snapshot, decision) ==
    LET d1 == IF ~IsNone(snapshot.best_ask) /\ ~IsNone(decision.bid_price)
                 /\ Val(decision.bid_price) >= Val(snapshot.best_ask)
              THEN [decision EXCEPT !.place_bid = FALSE,
                                    !.pause_reason = Some("bid_crosses_ask")]
              ELSE decision
    IN  IF ~IsNone(snapshot.best_bid) /\ ~IsNone(d1.ask_price)
           /\ Val(d1.ask_price) <= Val(snapshot.best_bid)
        THEN [d1 EXCEPT !.place_ask = FALSE, !.pause_reason = Some("ask_crosses_bid")]
        ELSE d1

\* MarketMakingEngine.place_quotes on the engine state e
tick_place_quotes(e, snapshot, market_id, decision, now) ==
    IF ~IsNone(decision.pause_reason) \/ (~decision.place_bid /\ ~decision.place_ask)
    THEN tick_cancel_market(e, market_id)
    ELSE The({The({IF d.place_ask /\ ~IsNone(d.ask_price)
                   THEN tick_upsert_order(e1, snapshot, market_id, "sell",
                                          Val(d.ask_price), now)
                   ELSE tick_cancel_order(e1, market_id, "sell") :
                      e1 \in {IF d.place_bid /\ ~IsNone(d.bid_price)
                              THEN tick_upsert_order(e, snapshot, market_id, "buy",
                                                     Val(d.bid_price), now)
                              ELSE tick_cancel_order(e, market_id, "buy")}}) :
                d \in {tick_uncrossed(snapshot, decision)}})

\* _handle_fill on s = [e, db]: the ledger call, then the fill record; fills
\* collects the fills handled
tick_handle_fill(s, order, fill_price, now) ==
    The({IF r.exc # "none" THEN [s EXCEPT !.e.exc = r.exc]
         ELSE [db |-> r.db,
               e |-> tick_record(
                        [s.e EXCEPT !.fills = Append(@,
                            [order_id |-> order.order_id, market_id |-> order.market_id,
                             side |-> order.side, fill_price |-> fill_price,
                             trade_id |-> r.trade_id])],
                        "record_fill",
                        TickPayload(order, r.trade_id,
                            [fill_ts |-> Some(now), fill_price |-> Some(fill_price),
                             fill_price_source |-> "fill",
                             filled_shares |-> Some(order.qty_shares)]))] :
            r \in {tick_apply_trade(s.db, order.market_id, order.side,
                                    order.qty_shares * fill_price, fill_price)}})

\* one pass of the loop of poll_fills: "del self._orders[key]" runs when
\* _handle_fill returned
tick_poll_side(s, market_id, side, snapshot, now) ==
    IF s.e.exc # "none" \/ OrderAt(s.e, << market_id, side >>) = {} THEN s
    ELSE The({The({
            IF ~f.fill \/ IsNone(f.fill_price) THEN s
            ELSE The({IF s1.e.exc # "none" THEN s1
                      ELSE [s1 EXCEPT !.e.orders = @ \ {order}] :
                         s1 \in {tick_handle_fill(s, order, Val(f.fill_price), now)}}) :
                f \in {should_fill(order.side, order.price, snapshot, PriceEpsPoints)}}) :
            order \in {The(OrderAt(s.e, << market_id, side >>))}})

\* MarketMakingEngine.poll_fills
tick_poll_fills(s, market_id, snapshot, now) ==
    The({tick_poll_side(s1, market_id, "sell", snapshot, now) :
            s1 \in {tick_poll_side(s, market_id, "buy", snapshot, now)}})

\* run_trust_gates(eps = 1e-6), in points
TrustEps == 0

\* the books the provider returns: narrow, narrow and higher, locked, wider
\* than max_spread_pct, without a bid, and with an ask above 1.0
TickBooks ==
    {<< Some(2), Some(6) >>, << Some(4), Some(8) >>, << Some(4), Some(4) >>,
     << Some(0), Some(8) >>, << None, Some(6) >>, << Some(4), Some(10) >>}

\* last trade prices: absent, 0, inside (0, 1), above 1.0
TickLastTrades == {None, Some(0), Some(1), Some(3), Some(5), Some(9)}

TickSnapshots ==
    {[best_bid |-> b[1], best_ask |-> b[2], mid_price |-> None, last_trade_price |-> ltp] :
        b \in TickBooks, ltp \in TickLastTrades}

\* poll_fills reads last_trade_price only
DrainSnapshots == {s \in TickSnapshots : s.best_bid = Some(2) /\ s.best_ask = Some(6)}

\* the issues run_trust_gates collects for the tables db and the execution
\* records, as pairs of kind and order or trade id
run_trust_gates(db, records, eps) ==
    LET recon == reconcile_trade_ledger(
                    IF db.portfolio = << >> THEN 0 ELSE db.portfolio[1].cash,
                    db.trades, None)
        filled == {r \in records : r.fill_price # None}
        both == {r \in filled : r.best_bid # None /\ r.best_ask # None}
        closed == {i \in 1..Len(db.trades) : Lower(db.trades[i].status) = "closed"}
        expected_proceeds(t) ==
            IF t.sell_price # None /\ Val(t.sell_price) # 0
            THEN SharesOf(t) * Val(t.sell_price) ELSE 0
        expected_realized(t) ==
            IF t.proceeds # 0 /\ t.size # 0 THEN t.proceeds - t.size ELSE 0
    IN  (IF Abs(recon.total_value - (recon.cash + recon.total_open_value)) > eps
         THEN {<< "portfolio_identity_failed", 0 >>} ELSE {})
        \cup {<< "fill_price_out_of_range", r.order_id >> :
                r \in {x \in filled : Val(x.fill_price) < 0 \/ Val(x.fill_price) > QOne}}
        \cup {<< "fill_missing_snapshot", r.order_id >> : r \in filled \ both}
        \cup {<< "fill_bid_gt_ask", r.order_id >> :
                r \in {x \in both : Val(x.best_bid) > Val(x.best_ask) + eps}}
        \cup {<< "fill_mid_mismatch", r.order_id >> :
                r \in {x \in both :
                        \/ x.mid_price = None
                        \/ Abs(2 * Val(x.mid_price) - (Val(x.best_bid) + Val(x.best_ask)))
                              > 2 * eps}}
        \cup {<< "closed_cycle_proceeds_mismatch", i >> :
                i \in {j \in closed :
                        Abs(db.trades[j].proceeds - expected_proceeds(db.trades[j])) > eps}}
        \cup {<< "closed_cycle_realized_mismatch", i >> :
                i \in {j \in closed :
                        Abs(db.trades[j].realized_pnl - expected_realized(db.trades[j]))
                           > eps}}

\* the engine as main builds it, about to call refresh_market for the first
\* market; snapshot and decision are the locals of the loop, sent and fills
\* what the call that has just returned did, for the properties
TickStart(markets) ==
    [pc |-> "refresh", markets |-> markets, idx |-> 1, ticks |-> 0, drained |-> 0,
     orders |-> {}, order_seq |-> 0, records |-> {}, sent |-> << >>, fills |-> << >>,
     exc |-> "none", snapshot |-> << >>, decision |-> << >>, gate |-> {}]

TickEngine(m) ==
    [orders |-> m.orders, order_seq |-> m.order_seq, records |-> m.records,
     sent |-> << >>, fills |-> << >>, exc |-> "none"]

TickAfter(m, e) ==
    [m EXCEPT !.orders = e.orders, !.order_seq = e.order_seq, !.records = e.records,
              !.sent = e.sent, !.fills = e.fills, !.exc = e.exc]

TickOn == mm # Off /\ "ticks" \in DOMAIN mm

TickMarket == mm.markets[mm.idx]

\* the statements of a write of the portfolio row from reconcile_portfolio
tick_update_portfolio(db) ==
    ExecAll(db, << [kind |-> "set_portfolio",
                    total_value |-> reconcile_trade_ledger(db.portfolio[1].cash, db.trades,
                                                           Some(TickBankroll)).total_value,
                    cash |-> db.portfolio[1].cash,
                    pnl_24h |-> calculate_24h_pnl(db.trades, Len(db.trades))] >>)

\* main up to the loop: the database of the run is new, the pre-run gate
\* finds nothing to check
tick_main ==
    /\ mm = Off /\ loop = Off /\ conc = Off /\ call = Off
    /\ trades = << >> /\ portfolio = << >>
    /\ initialize_portfolio(TickBankroll)
    /\ \E markets \in TickMarketLists : mm' = TickStart(markets)
    /\ UNCHANGED << loop, conc, call >>

\* engine.refresh_market(market_id): the provider's snapshot, and whether the
\* oldest lot of the market is older than max_hold_time_sec
tick_refresh_market ==
    /\ TickOn /\ mm.pc = "refresh" /\ mm.ticks < MaxTicks
    /\ \E snapshot \in TickSnapshots,
          stale \in IF HasLot(trades, TickMarket) THEN BOOLEAN ELSE {FALSE} :
          mm' = [mm EXCEPT !.pc = "place", !.ticks = @ + 1, !.snapshot = snapshot,
                           !.decision = refresh_market(snapshot,
                                            tick_inventory(trades, TickMarket), stale,
                                            TickParams),
                           !.sent = << >>, !.fills = << >>]
    /\ UNCHANGED << trades, portfolio, last, hist, loop, conc, call >>

\* engine.place_quotes(snapshot, decision)
tick_place ==
    /\ TickOn /\ mm.pc = "place"
    /\ \E e \in {tick_place_quotes(TickEngine(mm), mm.snapshot, TickMarket, mm.decision,
                                   mm.ticks)} :
          mm' = [TickAfter(mm, e) EXCEPT !.pc = IF e.exc # "none" THEN "raised" ELSE "poll"]
    /\ UNCHANGED << trades, portfolio, last, hist, loop, conc, call >>

\* engine.poll_fills(market_id, snapshot) and the end of the pass: the next
\* market, or after the last one the portfolio write and the next round, or
\* a break (max_fills after a fill, the run time after the last market)
tick_poll ==
    /\ TickOn /\ mm.pc = "poll"
    /\ \E s \in {tick_poll_fills([e |-> TickEngine(mm), db |-> Committed], TickMarket,
                                 mm.snapshot, mm.ticks)} :
       \E brk \in BOOLEAN :
          /\ Len(s.db.trades) <= MaxRows
          /\ brk => (s.e.exc = "none" /\ (mm.idx = Len(mm.markets) \/ s.e.fills # << >>))
          /\ \E db \in {IF s.e.exc = "none" /\ ~brk /\ mm.idx = Len(mm.markets)
                        THEN tick_update_portfolio(s.db) ELSE s.db} :
                /\ trades' = db.trades
                /\ portfolio' = db.portfolio
          /\ mm' = [TickAfter(mm, s.e) EXCEPT
                      !.pc = IF s.e.exc # "none" THEN "raised"
                             ELSE IF brk THEN "drain" ELSE "refresh",
                      !.idx = IF s.e.exc # "none" THEN @
                              ELSE IF brk \/ @ = Len(mm.markets) THEN 1 ELSE @ + 1]
    /\ UNCHANGED << last, hist, loop, conc, call >>

\* the drain of the offline mode: poll_fills on a new snapshot, market by
\* market, for DrainRounds rounds
DrainRounds == 4

tick_drain_poll ==
    /\ TickOn /\ mm.pc = "drain" /\ mm.drained < DrainRounds * Len(mm.markets)
    /\ \E snapshot \in DrainSnapshots :
       \E s \in {tick_poll_fills([e |-> TickEngine(mm), db |-> Committed], TickMarket,
                                 snapshot, mm.ticks + 1)} :
          /\ Len(s.db.trades) <= MaxRows
          /\ trades' = s.db.trades
          /\ portfolio' = s.db.portfolio
          /\ mm' = [TickAfter(mm, s.e) EXCEPT
                      !.pc = IF s.e.exc # "none" THEN "raised" ELSE "drain",
                      !.drained = @ + 1,
                      !.idx = IF @ = Len(mm.markets) THEN 1 ELSE @ + 1,
                      !.snapshot = << >>, !.decision = << >>]
    /\ UNCHANGED << last, hist, loop, conc, call >>

\* the end of main: the portfolio write and the post-run gate, after the
\* drain or, in the online mode, without it
tick_post_run ==
    /\ TickOn /\ mm.pc = "drain" /\ mm.drained \in {0, DrainRounds * Len(mm.markets)}
    /\ \E db \in {tick_update_portfolio(Committed)} :
       \E issues \in {run_trust_gates(db, mm.records, TrustEps)} :
          /\ trades' = db.trades
          /\ portfolio' = db.portfolio
          /\ mm' = [mm EXCEPT !.pc = IF issues = {} THEN "done" ELSE "raised",
                              !.exc = IF issues = {} THEN "none" ELSE "RuntimeError",
                              !.gate = issues, !.sent = << >>, !.fills = << >>]
    /\ UNCHANGED << last, hist, loop, conc, call >>

NextTick ==
    \/ tick_main
    \/ tick_refresh_market
    \/ tick_place
    \/ tick_poll
    \/ tick_drain_poll
    \/ tick_post_run

SpecTick == Init /\ [][NextTick]_vars

\* ------------------------------------------------------------- properties
RowIds == 1..Len(trades)

RECURSIVE SumOver(_, _)
\* sum of f[i] for i in the finite set S
SumOver(f, S) ==
    IF S = {} THEN 0
    ELSE LET i == CHOOSE j \in S : TRUE IN f[i] + SumOver(f, S \ {i})

OpenIds == {i \in RowIds : trades[i].status = "open"}

ClosedIds == {i \in RowIds : trades[i].status = "closed"}

Initialized == portfolio # << >>

\* the ledger was started by initialize_portfolio on an empty trades table
\* and only add_trade, update_trade_pnl and close_trade have run since
LedgerOnly == Initialized /\ hist.emptyAtInit /\ ~hist.updated

OnlyBuys == \A i \in RowIds : trades[i].side = "BUY"

\* C1: on a ledger built from initialize_portfolio(B) by BUY add_trade,
\* update_trade_pnl and close_trade calls, reconcile_portfolio(B) returns
\* total_value = cash + sum over open rows of shares x current_price and
\* equity_pnl = total_realized + total_unrealized.
C1_Reconcile ==
    (last.op = "reconcile_portfolio" /\ LedgerOnly /\ OnlyBuys) =>
        LET r == last.rec[1]
        IN  /\ r.total_value =
                  portfolio[1].cash
                  + SumOver([i \in RowIds |-> trades[i].shares * Val(trades[i].current_price)],
                            OpenIds)
            /\ Val(r.equity_pnl) = r.total_realized + r.total_unrealized
            /\ Val(r.equity_pnl) = r.total_value - portfolio[1].initial_budget

\* a marked open lot and a closed lot with a profit, then reconciled
C1_Witness ==
    /\ last.op = "reconcile_portfolio" /\ LedgerOnly /\ OnlyBuys
    /\ \E i \in OpenIds : trades[i].current_price # Some(trades[i].price)
    /\ \E i \in ClosedIds : trades[i].realized_pnl > 0

\* cash and pnl_total as any reader sees them (zeros without a portfolio row)
Cash(p) == IF p = << >> THEN 0 ELSE p[1].cash

PnlTotal(p) == IF p = << >> THEN 0 ELSE p[1].pnl_total

\* the steps that wrote a trade row or the portfolio row
Wrote == trades' # trades \/ portfolio' # portfolio

\* the id of the closed row a close_trade step produced: the row closed in
\* place by a full close, the inserted row of a partial close
ClosedByStep ==
    CHOOSE i \in 1..Len(trades') :
        /\ trades'[i].status = "closed"
        /\ (i > Len(trades) \/ trades[i].status = "open")

\* the id of the row a close_trade step closed or shrank
TargetOfStep == CHOOSE i \in 1..Len(trades) : trades'[i] # trades[i]

EffectiveClose == last'.op = "close_trade" /\ trades' # trades

\* C2: after initialize_portfolio(B), cash = B - BUY opens + SELL opens
\* + proceeds of closes; an add_trade moves cash by exactly its size, an
\* effective close_trade credits exactly the proceeds it stored, and
\* update_trade_pnl leaves cash alone.
C2_CashSum ==
    (Initialized /\ ~hist.updated) =>
        portfolio[1].cash =
            portfolio[1].initial_budget - hist.buys + hist.sells + hist.proceeds

C2_CashStep ==
    /\ (last'.op = "add_trade" /\ trades' # trades /\ Initialized) =>
          LET row == trades'[Len(trades')]
          IN  Cash(portfolio') - Cash(portfolio) =
                  IF row.side = "BUY" THEN 0 - row.size ELSE row.size
    /\ (EffectiveClose /\ Initialized) =>
          Cash(portfolio') - Cash(portfolio) = trades'[ClosedByStep].proceeds
    /\ last'.op = "update_trade_pnl" => Cash(portfolio') = Cash(portfolio)

C2_Cash == [](C2_CashSum) /\ [][C2_CashStep]_vars

\* a long and a short open and a close with proceeds behind the cash
C2_Witness ==
    /\ Initialized /\ hist.buys > 0 /\ hist.sells > 0 /\ hist.proceeds > 0
    /\ last.op = "update_trade_pnl"

\* the unrealized P&L update_trade_pnl gives a lot of the row's side
SideUnrealized(side, shares, entry_price, current_price) ==
    IF side = "BUY" THEN shares * (current_price - entry_price)
    ELSE shares * (entry_price - current_price)

\* C3: a close with 0 < close_size < size keeps the row open with size and
\* shares reduced by close_size and close_size / entry_price, inserts exactly
\* one closed row of size close_size at the exit price, and realized(closed
\* row) + unrealized(remaining row) = unrealized of the whole lot at the exit
\* price; a close_size at or above the size closes the row in place and
\* inserts no row.
C3_PartialCloseStep ==
    \A id \in TradeIds, p \in Prices, cs \in CloseSizes :
        (/\ last'.op = "close_trade"
         /\ RowExists(id) /\ trades[id].status = "open"
         /\ ~IsNone(cs) /\ Val(cs) > 0
         /\ close_trade(id, p, cs, "fill", "fill")) =>
            LET old == trades[id]
                n == Len(trades)
            IN  IF Val(cs) < old.size
                THEN /\ Len(trades') = n + 1
                     /\ \A i \in 1..n : i # id => trades'[i] = trades[i]
                     /\ trades'[id].status = "open"
                     /\ trades'[id].size = old.size - Val(cs)
                     /\ trades'[id].shares * old.price = old.shares * old.price - Val(cs)
                     /\ trades'[n + 1].status = "closed"
                     /\ trades'[n + 1].size = Val(cs)
                     /\ trades'[n + 1].sell_price = Some(p)
                     /\ trades'[n + 1].realized_pnl + trades'[id].unrealized_pnl
                            = SideUnrealized(old.side, old.shares, old.price, p)
                ELSE /\ Len(trades') = n
                     /\ trades'[id].status = "closed"

C3_PartialClose == [][C3_PartialCloseStep]_vars

\* C4: close_trade on an id that does not exist or is already closed returns
\* 0 and changes no trade row, no cash and no pnl_total.
C4_NoOpStep ==
    \A id \in TradeIds, p \in Prices, cs \in CloseSizes :
        (/\ last'.op = "close_trade"
         /\ ~(RowExists(id) /\ trades[id].status = "open")
         /\ close_trade(id, p, cs, "fill", "fill")) =>
            /\ trades' = trades
            /\ portfolio' = portfolio
            /\ last'.ret = 0 /\ last'.exc = "none"

C4_CloseNoOp == [][C4_NoOpStep]_vars

\* every row is closed with a realized P&L that is not 0, credited once, and
\* the last close_trade returned 0: it was a close of a closed or missing row
C4_Witness ==
    /\ last.op = "close_trade" /\ last.ret = 0
    /\ Len(trades) > 0
    /\ \A i \in RowIds : trades[i].status = "closed" /\ trades[i].realized_pnl # 0
    /\ LedgerOnly
    /\ portfolio[1].pnl_total = SumOver([i \in RowIds |-> trades[i].realized_pnl], RowIds)

\* C5 (as stated): pnl_total is changed only by close_trade.
C5_OnlyCloseStep ==
    PnlTotal(portfolio') # PnlTotal(portfolio) => last'.op = "close_trade"

C5_PnlTotalStep ==
    /\ last'.op \in {"add_trade", "update_trade_pnl", "update_portfolio"} =>
          PnlTotal(portfolio') = PnlTotal(portfolio)
    /\ (last'.op = "close_trade" /\ Initialized) =>
          PnlTotal(portfolio') = PnlTotal(portfolio) + last'.ret
    /\ PnlTotal(portfolio') # PnlTotal(portfolio) =>
          \/ last'.op = "close_trade"
          \/ /\ last'.op \in {"initialize_portfolio", "reset_pnl_total"}
             /\ PnlTotal(portfolio') = 0

C5_PnlTotalSum == Initialized => portfolio[1].pnl_total = hist.returned

InUnit(price) == 0 <= price /\ price <= PriceDen

C6_RowOk(row) ==
    /\ row.shares * row.price = row.size
    /\ InUnit(row.price)
    /\ row.status \in {"open", "closed"}
    /\ row.status = "open" =>
          /\ ~IsNone(row.current_price) /\ IsNone(row.sell_price)
          /\ InUnit(Val(row.current_price))
          /\ row.current_value = row.shares * Val(row.current_price)
    /\ row.status = "closed" =>
          /\ ~IsNone(row.sell_price) /\ IsNone(row.current_price)
          /\ InUnit(Val(row.sell_price))
          /\ row.proceeds = row.shares * Val(row.sell_price)
          /\ row.realized_pnl = row.shares * (Val(row.sell_price) - row.price)

C6_Rows == \A i \in RowIds : trades[i].side = "BUY" => C6_RowOk(trades[i])

\* a BUY lot split by a partial close, the open remainder marked away from
\* the entry price
C6_Witness ==
    \E i \in OpenIds, j \in ClosedIds :
        /\ trades[i].side = "BUY" /\ trades[j].side = "BUY"
        /\ trades[j].realized_pnl # 0
        /\ Val(trades[i].current_price) \notin {trades[i].price, Val(trades[j].sell_price)}

\* C7: for every close of a BUY lot the stored proceeds minus the cost basis
\* of the closed slice is the realized P&L returned; a BUY opened at p and
\* fully closed at p, with no cash movement in between, returns 0, stores
\* proceeds = cost basis and brings cash back to its value before the open.
C7_CloseStep ==
    (EffectiveClose /\ trades'[ClosedByStep].side = "BUY") =>
        LET closed == trades'[ClosedByStep]
        IN  /\ closed.proceeds - closed.size = last'.ret
            /\ (/\ hist.lastOpen # << >>
                /\ hist.lastOpen[1] = ClosedByStep
                /\ Len(trades') = Len(trades)
                /\ closed.sell_price = Some(closed.price)) =>
                   /\ last'.ret = 0
                   /\ closed.proceeds = closed.size
                   /\ Cash(portfolio') = hist.lastOpen[2]

C7_ProceedsIdentity == [][C7_CloseStep]_vars

\* a two-USD BUY lot just closed in full at its entry price, cash back at the
\* budget
C7_Witness ==
    /\ last.op = "close_trade" /\ last.ret = 0 /\ Initialized
    /\ \E i \in ClosedIds :
          /\ trades[i].side = "BUY" /\ trades[i].sell_price = Some(trades[i].price)
          /\ trades[i].proceeds = trades[i].size /\ trades[i].size = 2 * Unit
    /\ portfolio[1].cash = portfolio[1].initial_budget

\* a market id that is empty or has a character outside [a-zA-Z0-9_\-x]
Malformed(market) ==
    Len(market) = 0 \/ \E i \in 1..Len(market) : market[i] \notin MarketCharClass

\* an add_trade call the ledger has to reject: c = market, side, size, price, wallet
InvalidAdd(c) ==
    \/ Malformed(c[1])
    \/ Len(c[1]) > MAX_MARKET_ID_LENGTH
    \/ Upper(c[2]) \notin {"BUY", "SELL"}
    \/ c[3] <= 0
    \/ c[4] = 0 \/ ~InUnit(c[4])

Rejected == last'.exc = "ValueError" /\ trades' = trades /\ portfolio' = portfolio

\* C8: add_trade with a malformed or over-long market id, a side other than
\* BUY/SELL, size <= 0 or a price that is 0 or outside [0,1], and
\* update_trade_pnl or close_trade on an open trade with a price outside
\* [0,1], raise ValueError and leave every trade row and the portfolio row
\* as they were.
C8_RejectStep ==
    /\ \A c \in AddCalls :
          (/\ last'.op = "add_trade"
           /\ InvalidAdd(c)
           /\ add_trade(c[1], c[2], c[3], c[4], c[5], "unknown", "unknown")) => Rejected
    /\ \A id \in TradeIds, p \in BadPrices :
          (/\ last'.op = "update_trade_pnl"
           /\ RowExists(id) /\ trades[id].status = "open"
           /\ update_trade_pnl(id, p, "mark")) => Rejected
    /\ \A id \in TradeIds, p \in BadPrices, cs \in CloseSizes :
          (/\ last'.op = "close_trade"
           /\ RowExists(id) /\ trades[id].status = "open"
           /\ close_trade(id, p, cs, "unknown", "unknown")) => Rejected

C8_RejectBeforeWrite == [][C8_RejectStep]_vars

\* ------------------------------------------------------------ gate claims
GateMode == Lower(last.rec[1])

\* a closed row whose exit or fill price is not tagged 'fill'
NonFillClosed ==
    \E i \in ClosedIds :
        trades[i].exit_price_source # Some("fill") \/ trades[i].fill_price_source # Some("fill")

\* the accounting identities of the data model on every row and on the
\* portfolio row, and price sources from the allowed set
AccountingHolds ==
    /\ \A i \in RowIds :
          LET row == trades[i]
          IN  /\ row.shares * row.price = row.size
              /\ row.status = "open" =>
                    /\ row.current_value = row.shares * Val(row.current_price)
                    /\ row.unrealized_pnl = row.shares * (Val(row.current_price) - row.price)
              /\ row.status = "closed" =>
                    /\ row.proceeds = row.shares * Val(row.sell_price)
                    /\ row.realized_pnl = row.shares * (Val(row.sell_price) - row.price)
              /\ \A f \in {row.entry_price_source, row.current_price_source,
                           row.exit_price_source, row.fill_price_source} :
                    IsNone(f) \/ Val(f) \in allowed_sources
    /\ get_portfolio_stats.total_value =
          get_portfolio_stats.cash
          + SumOver([i \in RowIds |-> trades[i].current_value], OpenIds)

\* C9: with a closed row whose exit_price_source or fill_price_source is not
\* 'fill', the gate in live mode raises RuntimeError even when every
\* accounting identity holds, and the same ledger passes in backtest mode.
C9_LiveGate ==
    (last.op = "run_reconciliation_gate" /\ NonFillClosed) =>
        /\ GateMode = "live" => last.exc = "RuntimeError"
        /\ (GateMode = "live" /\ AccountingHolds) => GateOutcome("backtest", EpsUnits) = "none"
        /\ (GateMode = "backtest" /\ AccountingHolds) => last.exc = "none"

\* the live gate has just raised on a ledger whose only flaw is a closed row
\* with a fill price not tagged 'fill'
C9_Witness ==
    /\ last.op = "run_reconciliation_gate" /\ GateMode = "live"
    /\ last.exc = "RuntimeError"
    /\ AccountingHolds
    /\ \E i \in ClosedIds : /\ trades[i].exit_price_source = Some("fill")
                            /\ trades[i].fill_price_source = Some("quote")
    /\ \E i \in OpenIds : trades[i].unrealized_pnl # 0

\* C10: validate_trade_integrity never raises; the gate returns exactly when
\* no issue was collected and otherwise raises RuntimeError in live mode and
\* AssertionError in backtest or dry_run mode; neither writes a trade row or
\* the portfolio row.
C10_Outcome ==
    /\ last.op = "validate_trade_integrity" => last.exc = "none"
    /\ last.op = "run_reconciliation_gate" =>
          /\ last.exc = "none" <=> last.issues = {}
          /\ (last.issues # {} /\ GateMode = "live") => last.exc = "RuntimeError"
          /\ (last.issues # {} /\ GateMode \in {"backtest", "dry_run"}) =>
                last.exc = "AssertionError"
          /\ AccountingHolds => { x \in last.issues : x[2] \notin
                                    {"live: closed trade missing exit_price",
                                     "live: exit_price_source must be fill",
                                     "live: fill_price_source must be fill"} } = {}

C10_ReadOnlyStep ==
    last'.op \in {"validate_trade_integrity", "run_reconciliation_gate"} =>
        trades' = trades /\ portfolio' = portfolio

C10_Gate == [](C10_Outcome) /\ [][C10_ReadOnlyStep]_vars

\* the gate has just failed a dry run on a stale portfolio total
C10_Witness ==
    /\ last.op = "run_reconciliation_gate" /\ GateMode = "dry_run"
    /\ last.exc = "AssertionError"
    /\ last.issues = {<< 0, "portfolio total mismatch" >>}
    /\ hist.updated

\* C11: once a reconciliation gate of the copy loop has raised, no later
\* step of the run writes a trade row or the portfolio row (no add_trade, no
\* close_trade), the loop is not entered again, and the process exits.
C11_AfterGateFailure ==
    loop.pc # "off" /\ loop.gate_failed =>
        /\ trades' = trades /\ portfolio' = portfolio
        /\ last'.op \notin {"add_trade", "close_trade"} \/ last' = last
        /\ loop'.pc \in {"except", "finally", "exited"}

C11_GateStops ==
    /\ [][C11_AfterGateFailure]_vars
    /\ (loop.pc # "off" /\ loop.gate_failed) ~> (loop.pc = "exited")

\* a live run that traded, failed the gate at the end of an iteration and
\* has shut down
C11_Witness ==
    /\ loop.pc = "exited" /\ loop.gate_failed /\ ~loop.dry_run
    /\ last.op = "run_reconciliation_gate" /\ last.exc = "RuntimeError"
    /\ Len(trades) = 2 /\ hist.updated

\* ------------------------------------------------------ concurrency claims
\* the tables right after initialize_portfolio(Budget)
InitialTables ==
    Tables(<< >>, << [total_value |-> Budget, cash |-> Budget, initial_budget |-> Budget,
                      pnl_24h |-> 0, pnl_total |-> 0] >>)

\* the calls executed one at a time in the given order, each reading the
\* tables the calls before it left
RECURSIVE Replay(_, _, _, _)
Replay(db, calls, order, k) ==
    IF k > Len(calls) THEN db
    ELSE Replay(ExecAll(db, Writes(db, calls[order[k]])), calls, order, k + 1)

\* cash and every row's size, shares and value fields
Observable(db) ==
    [cash |-> Cash(db.portfolio),
     rows |-> [i \in 1..Len(db.trades) |->
                 Cols(db.trades[i], {"status", "size", "shares", "current_value",
                                     "proceeds"})]]

Quiescent == conc.pc = "run" /\ \A t \in Threads : conc.thr[t].pc = "idle"

\* C12: when the threads have returned from their add_trade, close_trade,
\* update_trade_pnl and update_portfolio calls, cash and every trade row's
\* size, shares and value fields are those of executing the same calls one
\* at a time in some order.
C12_Serializable ==
    Quiescent =>
        \E order \in Permutations(1..Len(conc.done)) :
            Observable(Replay(InitialTables, conc.done, order, 1)) = Observable(Committed)

\* the rows a step of the committed tables closed: closed in place or inserted
ClosedBy ==
    {i \in 1..Len(trades') :
        /\ trades'[i].status = "closed"
        /\ (i > Len(trades) \/ trades[i].status = "open")}

\* the open rows a step of the committed tables shrank
ShrunkBy ==
    {i \in 1..Len(trades) : trades'[i].status = "open" /\ trades'[i].size < trades[i].size}

\* C13: the committed tables, which are what every reader on any connection
\* sees, never gain an open row without the cash movement of its add_trade,
\* nor a closed or shrunk row without the cash credit and the pnl_total
\* increment of its close_trade.
C13_AtomicStep ==
    Initialized =>
        LET n == Len(trades)
            m == Len(trades')
        IN  /\ m \in {n, n + 1}
            /\ (m = n + 1 /\ trades'[m].status = "open") =>
                  /\ Cash(portfolio') - Cash(portfolio) =
                        IF trades'[m].side = "BUY" THEN 0 - trades'[m].size
                        ELSE trades'[m].size
                  /\ PnlTotal(portfolio') = PnlTotal(portfolio)
            /\ ClosedBy # {} =>
                  /\ Cardinality(ClosedBy) = 1
                  /\ \A j \in ClosedBy :
                        /\ Cash(portfolio') - Cash(portfolio) = trades'[j].proceeds
                        /\ PnlTotal(portfolio') - PnlTotal(portfolio) = trades'[j].realized_pnl
                        /\ j > n => ShrunkBy # {}
            /\ ShrunkBy # {} => (m = n + 1 /\ trades'[m].status = "closed")

OrderIds == 1..mm.order_seq

Resting(i) == \E o \in mm.orders : o.order_id = i

\* a (market, side) has no order or one resting order; an order is resting
\* exactly while _orders holds it, a filled order has left _orders and went
\* through _apply_trade once, a cancelled or replaced one never did
C14_Book ==
    mm.pc # "off" =>
        /\ \A m \in EngineMarkets, sd \in Sides :
                Cardinality(OrderAt(mm, << m, sd >>)) <= 1
        /\ \A i \in OrderIds :
                /\ (mm.log[i].state = "resting") <=> Resting(i)
                /\ mm.log[i].applied <= 1
                /\ mm.log[i].state = "filled" => mm.log[i].applied = 1
                /\ mm.log[i].state = "cancelled" => mm.log[i].applied = 0
                /\ mm.log[i].state = "resting" /\ mm.pc = "run" =>
                        mm.log[i].applied = 0

\* an order leaves the book once: filled and cancelled are final, a fill
\* happens in poll_fills and removes the order in that call
C14_OrderStep ==
    mm.pc # "off" =>
        \A i \in OrderIds :
            /\ mm.log[i].state # "resting" => mm'.log[i] = mm.log[i]
            /\ mm'.log[i].applied > mm.log[i].applied /\ mm'.pc = "run" =>
                    /\ mm'.op = "poll_fills"
                    /\ mm'.log[i].state = "filled"
                    /\ \E k \in 1..Len(mm'.fills) : mm'.fills[k].order_id = i

\* C14: for each (market, side) the engine holds at most one resting order,
\* an order moves only from resting to filled or cancelled, a filled order is
\* removed in the poll that filled it and applied to the ledger exactly once,
\* and a cancelled or replaced order never fills afterwards
C14_OrderLifecycle == [](C14_Book) /\ [][C14_OrderStep]_vars

\* a replaced order, a filled one, and a new one resting under the key of
\* the filled one
C14_Witness ==
    /\ mm.pc = "run" /\ mm.order_seq = 3
    /\ \E i, j, k \in OrderIds :
          /\ mm.log[i].state = "cancelled" /\ mm.log[j].state = "filled"
          /\ mm.log[k].state = "resting"
    /\ Len(trades) >= 1 /\ trades[Len(trades)].target_wallet = MarketMakingWallet

\* ---------------------------------------------------------------- C15
\* the open BUY rows of a market among rows
OpenBuys(rows, market_id) ==
    {j \in 1..Len(rows) :
        /\ rows[j].status = "open" /\ rows[j].side = "BUY"
        /\ rows[j].market = market_id}

\* what the fills of one poll_fills call did to the ledger: a buy fill
\* appended one open BUY row of the fill's market, price and value; a sell
\* fill closed the open BUY row of its market that was opened first, or
\* nothing when there was none; every other row, and the cash but for these
\* fills, is as before; no SELL row appeared
C15_FillStep ==
    mm.pc = "run" /\ mm'.op = "poll_fills" =>
        LET n == Len(trades)
            F == mm'.fills
            Buys == {k \in 1..Len(F) : F[k].side = "buy"}
            Sells == {k \in 1..Len(F) : F[k].side = "sell"}
            Closed == {Val(F[k].trade_id) : k \in {x \in Sells : ~IsNone(F[x].trade_id)}}
            \* the ledger the sell fill found: the rows before the poll and
            \* the row of the buy fill
            Seen == [j \in 1..Len(trades') |->
                        IF j <= n THEN trades[j]
                        ELSE [trades'[j] EXCEPT !.status = "open"]]
        IN  /\ Len(trades') = n + Cardinality(Buys)
            /\ Cardinality(Buys) <= 1 /\ Cardinality(Sells) <= 1
            /\ \A k \in Buys :
                    /\ F[k].trade_id = Some(n + 1)
                    /\ trades'[n + 1].side = "BUY"
                    /\ trades'[n + 1].market = F[k].market_id
                    /\ trades'[n + 1].price = F[k].fill_price
                    /\ trades'[n + 1].size = F[k].qty_shares * F[k].fill_price
                    /\ trades'[n + 1].status = "open" \/ (n + 1) \in Closed
            /\ \A k \in Sells :
                    IF IsNone(F[k].trade_id)
                    THEN OpenBuys(Seen, F[k].market_id) = {}
                    ELSE LET id == Val(F[k].trade_id)
                         IN  /\ id \in OpenBuys(Seen, F[k].market_id)
                             /\ \A j \in OpenBuys(Seen, F[k].market_id) : id <= j
                             /\ trades'[id].status = "closed"
                             /\ trades'[id].sell_price = Some(F[k].fill_price)
            /\ \A j \in 1..n : j \notin Closed => trades'[j] = trades[j]
            /\ \A j \in 1..Len(trades') : j > n => trades'[j].side = "BUY"
            /\ Cash(portfolio') = Cash(portfolio)
                    - SumOver([k \in Buys |-> F[k].qty_shares * F[k].fill_price], Buys)
                    + SumOver([j \in Closed |-> trades'[j].proceeds], Closed)

\* C15: a buy fill opens exactly one new BUY lot; a sell fill closes the
\* oldest open BUY lot of its market and touches no other lot; a sell fill
\* with no open BUY lot in the market changes no row and no cash; the
\* engine never creates a SELL trade
C15_FillLedger == [][C15_FillStep]_vars

\* two open BUY lots of one market, a sell fill closed the older one
C15_Witness ==
    /\ mm.pc = "run" /\ mm.op = "poll_fills"
    /\ Len(trades) = 2
    /\ trades[1].market = trades[2].market
    /\ trades[1].side = "BUY" /\ trades[2].side = "BUY"
    /\ trades[1].status = "closed" /\ trades[2].status = "open"
    /\ \E k \in 1..Len(mm.fills) :
            mm.fills[k].side = "sell" /\ mm.fills[k].trade_id = Some(1)

\* ---------------------------------------------------------------- C16
Returned_decide_quotes == call.pc = "returned" /\ call.fn = "decide_quotes"

HasPrices(d) == ~IsNone(d.bid_price) \/ ~IsNone(d.ask_price)

\* C16: a decision of decide_quotes that carries prices has
\* 0 < bid < ask < 1; any other decision carries no price and enables
\* neither side
C16_QuoteBounds ==
    Returned_decide_quotes =>
        LET d == call.decision
        IN  IF HasPrices(d)
            THEN /\ ~IsNone(d.bid_price) /\ ~IsNone(d.ask_price)
                 /\ 0 < Val(d.bid_price)
                 /\ Val(d.bid_price) < Val(d.ask_price)
                 /\ Val(d.ask_price) < QOne
            ELSE ~d.place_bid /\ ~d.place_ask

\* quotes with the ask one point below 1
C16_Witness ==
    /\ Returned_decide_quotes
    /\ call.decision.bid_price = Some(QOne - 3)
    /\ call.decision.ask_price = Some(QOne - 1)

\* ---------------------------------------------------------------- C17
\* C17: decide_quotes disables the bid when the net exposure of the market
\* is at or above the per-market cap and long, the ask when it is at or
\* above the cap and short, both when the gross exposure is at or above the
\* total cap and the market is flat; a decision that quotes keeps the side
\* that reduces the exposure enabled
C17_Caps ==
    Returned_decide_quotes =>
        LET d == call.decision
            net == call.inventory.net_usd
            gross == call.inventory.gross_usd
            at_market_cap == Abs(net) >= call.P.max_per_market_exposure_usd
            at_total_cap == gross >= call.P.max_total_exposure_usd
        IN  /\ at_market_cap /\ net > 0 => ~d.place_bid
            /\ at_market_cap /\ net < 0 => ~d.place_ask
            /\ at_total_cap /\ net = 0 => ~d.place_bid /\ ~d.place_ask
            /\ IsNone(d.pause_reason) /\ net > 0 => d.place_ask
            /\ IsNone(d.pause_reason) /\ net < 0 => d.place_bid
            /\ IsNone(d.pause_reason) /\ ~at_market_cap /\ ~at_total_cap =>
                    d.place_bid /\ d.place_ask

\* long exactly at the per-market cap, below the total cap: quotes with the
\* bid disabled and the ask enabled
C17_Witness ==
    /\ Returned_decide_quotes
    /\ call.inventory.net_usd = call.P.max_per_market_exposure_usd
    /\ call.inventory.gross_usd < call.P.max_total_exposure_usd
    /\ HasPrices(call.decision)
    /\ ~call.decision.place_bid /\ call.decision.place_ask

\* ---------------------------------------------------------------- C18
Sign(x) == IF x > 0 THEN 1 ELSE IF x < 0 THEN 0 - 1 ELSE 0

\* C18: the prices of a decision of decide_quotes are
\* bid = mid - half_width - skew and ask = mid + half_width - skew, with
\* half_width = max(k_ticks, 0.5) x tick_size and
\* skew = skew_ticks x tick_size x sign(net); both sides of each equation
\* are doubled
C18_QuoteFormula ==
    Returned_decide_quotes /\ HasPrices(call.decision) =>
        LET d == call.decision
            s == call.snapshot
            mid2 == IF ~IsNone(s.best_bid) /\ ~IsNone(s.best_ask)
                    THEN Val(s.best_bid) + Val(s.best_ask)
                    ELSE 2 * Val(s.mid_price)
            half_width2 == Max(2 * call.P.k_ticks, 1) * call.P.tick_size
            skew == call.P.skew_ticks * call.P.tick_size * Sign(call.inventory.net_usd)
        IN  /\ 2 * Val(d.bid_price) = mid2 - half_width2 - 2 * skew
            /\ 2 * Val(d.ask_price) = mid2 + half_width2 - 2 * skew
            /\ call.inventory.net_usd = 0 =>
                    Val(d.bid_price) + Val(d.ask_price) = mid2

\* k_ticks = 0 and a long inventory: half a tick each side, one tick lower
C18_Witness ==
    /\ Returned_decide_quotes
    /\ call.P.k_ticks = 0 /\ call.P.tick_size = 2 /\ call.P.skew_ticks = 1
    /\ call.inventory.net_usd > 0
    /\ call.snapshot.best_bid = Some(2) /\ call.snapshot.best_ask = Some(6)
    /\ call.decision.bid_price = Some(1) /\ call.decision.ask_price = Some(3)

\* ---------------------------------------------------------------- C19
\* the snapshot has a missing bid or ask, a negative bid or ask, bid > ask
\* or a mid outside (0,1)
Defective(s) ==
    \/ IsNone(s.best_bid) \/ IsNone(s.best_ask)
    \/ Val(s.best_bid) < 0 \/ Val(s.best_ask) < 0
    \/ Val(s.best_bid) > Val(s.best_ask)
    \/ Val(s.best_bid) + Val(s.best_ask) <= 0
    \/ Val(s.best_bid) + Val(s.best_ask) >= 2 * QOne

NoQuote(d) ==
    /\ IsNone(d.bid_price) /\ IsNone(d.ask_price)
    /\ ~d.place_bid /\ ~d.place_ask
    /\ ~IsNone(d.pause_reason)

\* C19: the decision of decide_quotes and of refresh_market on a snapshot
\* with a missing bid or ask, a negative bid or ask, bid > ask or a mid
\* outside (0,1) carries no price, enables no side and carries a reason
C19_NoQuoteOnDefect ==
    call.pc = "returned" /\ Defective(call.snapshot) => NoQuote(call.decision)

\* the same of refresh_market alone
C19_RefreshMarket ==
    call.pc = "returned" /\ call.fn = "refresh_market" => C19_NoQuoteOnDefect

ProbFills ==
    IF call # Off /\ call.pc = "prob"
    THEN {i \in 1..Len(call.outA) : call.outA[i].fill}
    ELSE {}

\* C22 (first half): whenever the probabilistic model fills, the fill price
\* is the midpoint of the order price and the reference price, clamped to
\* [0,1].
C22_Midpoint ==
    \A i \in ProbFills :
        LET order == call.inputs[i].order_price
            ref   == Val(ref_price_of(call.inputs[i].snapshot))
            m     == Val(call.outA[i].fill_price)
        IN  IF order + ref > 2 * QOne THEN m = QOne
            ELSE IF order + ref < 0 THEN m = 0
            ELSE 2 * m = order + ref

\* C22: whenever the probabilistic model fills, the fill price is never
\* exactly equal to the order's quoted price.
C22_NeverAtQuote ==
    \A i \in ProbFills :
        Val(call.outA[i].fill_price) # call.inputs[i].order_price

\* ---------------------------------------------------------------- C23

DiagOn == call # Off /\ call.pc = "diag"

\* the last call was record_order_sent or record_fill and returned a record
Recorded ==
    /\ DiagOn
    /\ call.fn \in {"record_order_sent", "record_fill"}
    /\ call.ret.kind = "record"

RowsOf(key) == {row \in call.records : KeyOf(row) = key}

\* C23: there is at most one execution record per (run_id, order_id), and
\* after an event is recorded exactly one record has its key and carries the
\* event's fill price, fill source and filled shares (so an order-sent event
\* followed by a fill with the same key leaves one record with the fill).
C23_OneRecord ==
    DiagOn =>
        /\ \A a, b \in call.records : KeyOf(a) = KeyOf(b) => a = b
        /\ Recorded =>
              /\ Cardinality(RowsOf(KeyOf(call.ret.rec))) = 1
              /\ \A row \in RowsOf(KeyOf(call.ret.rec)) :
                    /\ row.fill_price = call.ret.rec.fill_price
                    /\ row.fill_price_source = call.ret.rec.fill_price_source
                    /\ row.filled_shares = call.ret.rec.filled_shares

\* a fill was recorded on a key whose row an earlier event had inserted (the
\* row keeps the side of that event), next to another key's record
C23_Witness ==
    /\ Recorded /\ call.fn = "record_fill"
    /\ Cardinality(call.records) = MaxRecords
    /\ \E row \in RowsOf(KeyOf(call.ret.rec)) :
          /\ row.side # call.ret.rec.side
          /\ row.fill_price = Some(6)
          /\ row.fill_price_source = "fill"

\* ---------------------------------------------------------------- C24

\* C24: the derived fields of every stored execution record are exactly the
\* values computed from the record's own stored raw inputs: computing them
\* again from the row with its derived fields blank gives the row.
C24_DerivedFromRaw ==
    DiagOn =>
        \A row \in call.records :
            compute_derived_metrics(
                [f \in DOMAIN row |-> IF f \in DerivedFields THEN None ELSE row[f]]) = row

\* ---------------------------------------------------------------- C25

\* C25: when a payload fails validation, record_order_sent and record_fill
\* write and change no execution record; with live_mode the validation error
\* is raised, otherwise the call returns None.
C25_RejectedPayload ==
    DiagOn =>
        \A payload \in DiagPayloads({NoFill} \cup DiagFills), fn \in {"record_order_sent", "record_fill"} :
            RecordRejected(payload) =>
                /\ diag_record(call, fn, payload).records = call.records
                /\ diag_record(call, fn, payload).ret.kind =
                      IF call.live_mode THEN "ValidationError" ELSE "None"

\* a rejected fill in live mode, after a record had been stored
C25_Witness ==
    /\ DiagOn /\ call.live_mode
    /\ call.fn = "record_fill" /\ call.ret.kind = "ValidationError"
    /\ call.records # {}

\* ---------------------------------------------------------------- C30

RunRecords(run_id) == {row \in call.records : run_id = "" \/ row.run_id = run_id}

Exportable(row) ==
    /\ row.fill_price # None
    /\ row.fill_price_source = "fill"
    /\ row.best_bid # None /\ row.best_ask # None /\ row.mid_price # None

\* C30: with the default flags export_slippage_csv writes exactly the
\* records of the selected run that have a fill price, fill source 'fill'
\* and a complete snapshot, and the three exclusion counts partition the
\* rest: rows written plus the counts equal the records of the run.
C30_ExportPartition ==
    (DiagOn /\ call.fn = "export_slippage_csv" /\ call.ret.defaults) =>
        LET run == RunRecords(call.ret.run_id)
            st  == call.ret.exclusion_stats
        IN  /\ call.ret.rows = {row \in run : Exportable(row)}
            /\ st["not_filled"] = Cardinality({row \in run : row.fill_price = None})
            /\ st["not_filled"] + st["non_fill_source"] + st["missing_snapshot"]
                  + Cardinality(call.ret.rows) = Cardinality(run)

\* an export of run r1 that wrote one row and counted the run's other
\* record as not filled
C30_Witness ==
    /\ DiagOn /\ call.fn = "export_slippage_csv" /\ call.ret.defaults
    /\ call.ret.run_id = "r1"
    /\ Cardinality(call.ret.rows) = 1
    /\ call.ret.exclusion_stats["not_filled"] = 1
    /\ call.ret.exclusion_stats["non_fill_source"] = 0
    /\ call.ret.exclusion_stats["missing_snapshot"] = 0

\* ---------------------------------------------------------------- C26

\* C26: a shutdown signal delivered at any time after the handlers are
\* installed, startup included, eventually ends the copy loop: once the
\* handler has set shutdown_event, the run exits.
C26_SignalEnds ==
    (loop.pc # "off" /\ loop.shutdown) ~> (loop.pc = "exited")

\* C26 (inside the loop): once shutdown_event is set inside the try block, no
\* further position is processed, the loop is not entered again and the run
\* exits.
C26_AfterShutdown ==
    loop.pc \notin {"off", "integrity", "exited"} /\ loop.shutdown =>
        /\ last'.op \notin {"add_trade", "close_trade"} \/ last' = last
        /\ loop.pc \in {"top", "except", "finally"} =>
              loop'.pc \in {"top", "except", "finally", "exited"}

C26_SignalInLoop ==
    /\ [][C26_AfterShutdown]_vars
    /\ (loop.pc \notin {"off", "integrity"} /\ loop.shutdown) ~> (loop.pc = "exited")

\* ---------------------------------------------------------------- C27

\* the portfolio row holds what update_portfolio would write from the
\* ledger as it is now
PortfolioFlushed ==
    /\ portfolio # << >>
    /\ portfolio[1].total_value =
          reconcile_trade_ledger(get_cash_balance, trades, Some(Budget)).total_value
    /\ portfolio[1].cash = get_cash_balance
    /\ portfolio[1].pnl_24h = calculate_24h_pnl(trades, Len(trades))

\* C27: on every way out of the copy loop the whole cleanup sequence has
\* run when the process exits: the portfolio row holds a final snapshot of
\* the ledger, the shutdown notification was sent, and the health server,
\* the wallet tracker and the database connection were closed.
C27_Cleanup ==
    (loop.pc = "exited" /\ loop.cleanup # << >>) =>
        /\ \A c \in {"send_shutdown_notification", "health_server.stop", "tracker.close",
                     "db.close"} : \E i \in 1..Len(loop.cleanup) : loop.cleanup[i] = c
        /\ PortfolioFlushed

\* C27 (the part that holds): every way out of the try block reaches the
\* finally block, whose calls all run.
C27_FinallyRuns ==
    (loop.pc \in {"top", "mark", "gate1", "risk", "execute", "update", "gate2", "except"}
       /\ (loop.shutdown \/ loop.pc = "except"))
    ~> (loop.pc = "exited" /\ loop.cleanup = CleanupCalls)

\* ---------------------------------------------------------------- C28

\* the step is a call of update_trade_pnl(id, p, "fill") on an id that does
\* not exist or whose row is not open
MarkNoOp(id, p) ==
    /\ last'.op = "update_trade_pnl"
    /\ ~(RowExists(id) /\ trades[id].status = "open")
    /\ update_trade_pnl(id, p, "fill")

\* C28 (as stated): update_trade_pnl on a trade id that does not exist or is
\* already closed changes no trade row and no portfolio field, and returns a
\* zero value rather than raising.
C28_ZeroStep ==
    \A id \in TradeIds, p \in Prices :
        MarkNoOp(id, p) =>
            /\ trades' = trades /\ portfolio' = portfolio
            /\ last'.exc = "none" /\ last'.ret = 0

C28_MarkReturnsZero == [][C28_ZeroStep]_vars

\* C28 (amended): update_trade_pnl on a trade id that does not exist or is
\* already closed changes no trade row and no portfolio field and does not
\* raise; it returns 0 for a missing id and the stored pnl of a closed row.
C28_NoOpStep ==
    \A id \in TradeIds, p \in Prices :
        MarkNoOp(id, p) =>
            /\ trades' = trades /\ portfolio' = portfolio
            /\ last'.exc = "none"
            /\ last'.ret = IF RowExists(id) THEN trades[id].pnl ELSE 0

C28_MarkNoOp == [][C28_NoOpStep]_vars

\* every row is closed and the last update_trade_pnl returned a value that is
\* not 0: it was a mark of a closed row with a realized P&L
C28_Witness ==
    /\ last.op = "update_trade_pnl" /\ last.exc = "none" /\ last.ret # 0
    /\ Len(trades) > 0
    /\ \A i \in RowIds : trades[i].status = "closed"

\* ---------------------------------------------------------------- C29

\* C29: no ledger operation deletes a trade row and closed is terminal: a
\* step keeps every row, leaves every closed row as it is, and so never
\* lowers the number of rows or of closed rows.
C29_Step ==
    /\ Len(trades') >= Len(trades)
    /\ \A i \in RowIds : trades[i].status = "closed" => trades'[i] = trades[i]
    /\ Cardinality({i \in 1..Len(trades') : trades'[i].status = "closed"})
          >= Cardinality(ClosedIds)

C29_ClosedIsTerminal == [][C29_Step]_vars

\* a closed row exists next to a row inserted after it, and the last call
\* was a close_trade that met no open row and changed nothing
C29_Witness ==
    /\ Len(trades) = MaxRows
    /\ trades[1].status = "closed"
    /\ trades[MaxRows].status = "open"
    /\ last.op = "close_trade" /\ last.ret = 0 /\ last.exc = "none"

\* ---------------------------------------------------------------- C40
UpsertOn == call # Off /\ call.pc = "upsert"

\* the stored row of the key of r
StoredRow(records, r) == The({x \in records : KeyOf(x) = KeyOf(r)})

\* an event on a key that has a row: the row after it has the columns of the
\* event's validated record and the time of the event in updated_at, except
\* market_id, side, order_type and created_at, which are as before
C40_Step ==
    UpsertOn /\ call'.now = call.now + 1
             /\ (\E old \in call.records : KeyOf(old) = KeyOf(call'.ret.rec)) =>
        LET rec == to_row(call'.ret.rec)
            old == StoredRow(call.records, rec)
            new == StoredRow(call'.records, rec)
        IN  /\ Cardinality({x \in call'.records : KeyOf(x) = KeyOf(rec)}) = 1
            /\ \A c \in DOMAIN rec :
                    new[c] = IF c \in {"market_id", "side", "order_type"}
                             THEN old[c] ELSE rec[c]
            /\ new.created_at = old.created_at
            /\ new.updated_at = call'.now
            /\ \A x \in call.records : KeyOf(x) # KeyOf(rec) => x \in call'.records

\* the four kept columns of every stored row are those of the first event of
\* its key
C40_FirstKept ==
    UpsertOn =>
        \A x \in call.records :
            \E f \in call.first :
                /\ KeyOf(f) = KeyOf(x)
                /\ \A c \in {"market_id", "side", "order_type", "created_at"} :
                        x[c] = f[c]

\* C40: a second event for an existing (run_id, order_id) replaces every
\* stored field of the execution record with the second event's validated
\* values, except market_id, side, order_type and created_at, which keep the
\* values of the first event
C40_UpsertFrame == [](C40_FirstKept) /\ [][C40_Step]_vars

\* an order-sent event, then a fill event for the same key with another
\* market, side and order type: the row has the fill and the first identity
C40_Witness ==
    /\ UpsertOn /\ call.now = 2 /\ call.fn = "record_fill"
    /\ Cardinality(call.records) = 1
    /\ \E x \in call.records :
          /\ x.fill_price = Some(6) /\ x.trade_id = Some(1)
          /\ x.created_at = 1 /\ x.updated_at = 2
          /\ x.market_id = "m1" /\ call.ret.rec.market_id = "m2"
          /\ x.side = "buy" /\ call.ret.rec.side = "sell"
          /\ x.order_type = "limit" /\ call.ret.rec.order_type = "market"

\* ---------------------------------------------------------------- C35
\* a mark of the copy loop, update_trade_pnl to the price of the whale's
\* position, made on a ledger that passes the reconciliation gate leaves a
\* ledger that passes it
C35_MarkStep ==
    /\ loop.pc = "mark" /\ loop'.pc = "mark"
    /\ GateIssues(CopyMode, EpsUnits) = {}
    => (GateIssues(CopyMode, EpsUnits))' = {}

\* C35: in the copy loop, the reconciliation gate that runs right after the
\* mark-to-market step passes whenever the ledger passed the gate at the end
\* of the previous iteration and the only changes since then are
\* update_trade_pnl marks to new prices; a price move alone never makes the
\* gate fail
C35_MarkKeepsGate == [][C35_MarkStep]_vars

\* ---------------------------------------------------------------- C36
\* the sum of the sizes of the open rows 1..n of the side
RECURSIVE OpenCost(_, _, _)
OpenCost(rows, n, side) ==
    IF n = 0 THEN 0
    ELSE OpenCost(rows, n - 1, side)
         + (IF rows[n].status = "open" /\ rows[n].side = side THEN rows[n].size ELSE 0)

\* C36: calling initialize_portfolio(budget) at start-up on a database that
\* already holds open trades leaves the portfolio row consistent with the
\* ledger: cash still reflects the cost of the open trades, total_value =
\* cash + sum of open current_value, and the start-up
\* validate_trade_integrity reports no portfolio total mismatch
C36_RestartConsistent ==
    last.op = "initialize_portfolio" /\ OpenIds # {} =>
        /\ ClosedIds = {} =>
              portfolio[1].cash = portfolio[1].initial_budget
                                  - OpenCost(trades, Len(trades), "BUY")
                                  + OpenCost(trades, Len(trades), "SELL")
        /\ portfolio[1].total_value =
              portfolio[1].cash + OpenValueTotal(trades, Len(trades))
        /\ << 0, "portfolio total mismatch" >> \notin IntegrityIssues(EpsUnits)

\* ---------------------------------------------------------------- C31
\* place_quotes has just returned for the market and snapshot in mm.arg
Placed == mm.pc # "off" /\ mm.op = "place_quotes" /\ mm.arg # << >>

\* no resting order of the market is priced across the snapshot's book
C31_NoCross ==
    Placed =>
        \A o \in mm.orders :
            o.market_id = mm.arg[1] =>
                /\ o.side = "buy" /\ ~IsNone(mm.arg[2].best_ask) =>
                        o.price < Val(mm.arg[2].best_ask)
                /\ o.side = "sell" /\ ~IsNone(mm.arg[2].best_bid) =>
                        o.price > Val(mm.arg[2].best_bid)

\* the decisions whose quote of the side crosses the book of snapshot
CrossingDecisions(side, snapshot) ==
    {d \in Decisions :
        IF side = "buy"
        THEN ~IsNone(d.bid_price) /\ ~IsNone(snapshot.best_ask)
             /\ Val(d.bid_price) >= Val(snapshot.best_ask)
        ELSE ~IsNone(d.ask_price) /\ ~IsNone(snapshot.best_bid)
             /\ Val(d.ask_price) <= Val(snapshot.best_bid)}

\* a call that leaves an order resting on a side of the market was not made
\* with a decision whose quote of that side crosses the book
C31_Step ==
    mm.pc = "run" /\ mm'.op = "place_quotes" /\ mm'.arg # << >> =>
        \A side \in Sides :
            OrderAt(mm', << mm'.arg[1], side >>) # {} =>
                \A d \in CrossingDecisions(side, mm'.arg[2]) :
                    ~place_quotes(mm'.arg[1], mm'.arg[2], d)

\* C31: after place_quotes(snapshot, decision) returns, the market has no
\* resting buy priced at or above snapshot.best_ask and no resting sell
\* priced at or below snapshot.best_bid: a side whose quote would cross the
\* book is not placed and any order already resting on that side is cancelled
C31_AntiCross == [](C31_NoCross) /\ [][C31_Step]_vars

\* the book is locked at 0.5: every bid crosses it, so the call that left the
\* sell order 2 resting at 1.0 had a crossing bid; order 1 was cancelled and
\* no buy rests in the market
C31_Witness ==
    /\ Placed
    /\ mm.arg[2] = [best_bid |-> Some(1), best_ask |-> Some(1)]
    /\ mm.order_seq = 2
    /\ mm.log[1].state = "cancelled" /\ mm.log[2].state = "resting"
    /\ mm.orders = {[order_id |-> 2, market_id |-> mm.arg[1], side |-> "sell",
                     price |-> PriceDen,
                     qty_shares |-> compute_shares(QuoteSizeUsd, PriceDen)]}

\* what place_quotes did for one side, over the step of the call
C32_Side(side) ==
    LET d == tick_uncrossed(mm.snapshot, mm.decision)
        key == << TickMarket, side >>
        quoted == IF side = "buy" THEN d.place_bid /\ ~IsNone(d.bid_price)
                  ELSE d.place_ask /\ ~IsNone(d.ask_price)
        price == IF side = "buy" THEN d.bid_price ELSE d.ask_price
        old == OrderAt(mm, key)
        new == OrderAt(mm', key)
        added == {r \in mm'.records \ mm.records : r.side = side}
        events(id) == {i \in 1..Len(mm'.sent) : mm'.sent[i] = id}
    IN  (IsNone(mm.decision.pause_reason)
         /\ (mm.decision.place_bid \/ mm.decision.place_ask) /\ quoted) =>
            IF \E o \in old : Abs(o.price - Val(price)) <= PriceEpsPoints
            THEN /\ new = old
                 /\ added = {}
                 /\ \A o \in old : events(o.order_id) = {}
            ELSE \E n \in new :
                    /\ new = {n}
                    /\ n.order_id > mm.order_seq
                    /\ n.price = Val(price)
                    /\ n.created_at = mm.ticks /\ n.snapshot = mm.snapshot
                    /\ Cardinality(events(n.order_id)) = 1
                    /\ Cardinality(added) = 1
                    /\ \A r \in added : r.order_id = n.order_id /\ r.fill_price = None

C32_Step ==
    (TickOn /\ mm.pc = "place" /\ mm'.pc = "poll") => (C32_Side("buy") /\ C32_Side("sell"))

\* C32: a place_quotes call that returns and reaches _upsert_order for a side
\* leaves the resting order of that side as it is (same order_id, creation
\* time and snapshot) and records no order-sent event when the new price is
\* within 1e-9 of the order's price; otherwise the side holds one order with
\* a new order_id, the new price, the time and the snapshot of the call, and
\* exactly one order-sent event and one new record were made for it.
C32_Upsert == [][C32_Step]_vars

\* place_quotes has returned: the market's sell order is the one an earlier
\* call placed, its buy order is new and is the one order-sent event
C32_Witness ==
    /\ TickOn /\ mm.pc = "poll" /\ Len(mm.sent) = 1
    /\ \E o \in OrderAt(mm, << TickMarket, "sell" >>) : o.created_at < mm.ticks
    /\ \E n \in OrderAt(mm, << TickMarket, "buy" >>) :
          n.created_at = mm.ticks /\ mm.sent[1] = n.order_id

\* the snapshot of the pass fails validate_snapshot, or its spread is above
\* max_spread_pct
TickDefect ==
    \/ ~IsNone(validate_snapshot(mm.snapshot, PriceEpsPoints))
    \/ LET sp == compute_spread_pct(mm.snapshot.best_bid, mm.snapshot.best_ask,
                                    compute_mid(mm.snapshot.best_bid, mm.snapshot.best_ask,
                                                mm.snapshot.mid_price))
       IN  ~IsNone(sp) /\ ~IsNone(TickParams.max_spread_pct)
           /\ FracGreater(Val(sp), Val(TickParams.max_spread_pct))

\* place_quotes has cancelled both sides
C33_Cancelled ==
    (TickOn /\ mm.pc = "poll" /\ TickDefect) =>
        \A side \in Sides : OrderAt(mm, << TickMarket, side >>) = {}

C33_PollStep ==
    (TickOn /\ mm.pc = "poll" /\ TickDefect) =>
        /\ mm'.pc # "raised"
        /\ mm'.fills = << >>
        /\ trades' = trades
        /\ portfolio'[1].cash = portfolio[1].cash
        /\ mm'.records = mm.records
        /\ mm'.orders = mm.orders

\* C33: on a pass of the loop whose snapshot fails validation or whose spread
\* exceeds max_spread_pct, the market has no resting order when poll_fills is
\* called, and poll_fills makes no fill, leaves the trades and the cash as
\* they are and writes no execution record.
C33_PausedTick == [](C33_Cancelled) /\ [][C33_PollStep]_vars

\* the second pass of a one-market run has a defective snapshot, and the
\* order the first pass left resting is gone
C33_Witness ==
    /\ TickOn /\ mm.pc = "poll" /\ TickDefect
    /\ mm.ticks = 2 /\ Len(mm.markets) = 1
    /\ mm.orders = {}
    /\ \E r \in mm.records : r.fill_price = None /\ r.order_sent_ts = Some(1)

\* the fills of the poll_fills call that has just returned are of one side
C37_OneSide ==
    TickOn => \A i, j \in 1..Len(mm.fills) : mm.fills[i].side = mm.fills[j].side

\* the engine runs: no call has raised out of main
TickRunning == TickOn /\ mm.pc # "raised"

\* C37: while the engine runs, whenever a market has a resting buy and a
\* resting sell, the buy price is strictly below the sell price, and no
\* poll_fills call fills both sides of its market on its snapshot.
C37_BidBelowAsk ==
    /\ TickRunning => \A b, s \in mm.orders :
                    (b.market_id = s.market_id /\ b.side = "buy" /\ s.side = "sell")
                        => b.price < s.price
    /\ C37_OneSide

\* a market had both sides resting and poll_fills filled one of them: the
\* other still rests
C37_Witness ==
    /\ TickOn /\ mm.pc \in {"refresh", "drain"} /\ Len(mm.fills) = 1
    /\ \E o \in mm.orders : o.market_id = mm.fills[1].market_id
                            /\ o.side # mm.fills[1].side

\* C34: while the engine runs, the open long exposure of each market is at
\* most max_per_market_exposure_usd and the open exposure of all markets is
\* at most max_total_exposure_usd.
C34_WithinCaps ==
    TickRunning =>
        /\ \A i \in 1..Len(mm.markets) :
              InventoryFold(trades, Len(trades), mm.markets[i])[1]
                 <= TickParams.max_per_market_exposure_usd
        /\ total_gross_exposure(trades, Len(trades)) <= TickParams.max_total_exposure_usd

\* the fill records of a market and side
FillRecords(market_id, side) ==
    {r \in mm.records : r.fill_price # None /\ r.market_id = market_id /\ r.side = side}

\* buys minus sells of filled_shares, as check_market_making_run.py sums them
RecordInventory(market_id) ==
    SumOver([r \in FillRecords(market_id, "buy") |-> Val(r.filled_shares)],
            FillRecords(market_id, "buy"))
    - SumOver([r \in FillRecords(market_id, "sell") |-> Val(r.filled_shares)],
              FillRecords(market_id, "sell"))

\* the shares of the open rows of a market
LedgerInventory(market_id) ==
    SumOver([i \in RowIds |-> trades[i].shares],
            {i \in OpenIds : trades[i].market = market_id})

\* C38: while the engine runs, every fill record names a trade row and its
\* filled_shares are the shares of that row (opened by a buy, closed by a
\* sell), and for each market the inventory summed from the fill records
\* equals the open shares of the ledger and is not negative.
C38_SameQuantity ==
    TickRunning =>
        /\ \A r \in mm.records :
              r.fill_price # None =>
                 /\ r.trade_id # None
                 /\ r.filled_shares = Some(trades[Val(r.trade_id)].shares)
        /\ \A i \in 1..Len(mm.markets) :
              /\ RecordInventory(mm.markets[i]) = LedgerInventory(mm.markets[i])
              /\ RecordInventory(mm.markets[i]) >= 0

\* C39: in every state of a run from a new database the issue list of
\* run_trust_gates is empty: every fill record has a fill price in [0, 1]
\* and a snapshot with bid <= ask and mid = (bid + ask) / 2, every closed
\* trade has proceeds = shares x exit price and realized P&L = proceeds -
\* cost basis, and the post-run gate of main does not raise.
C39_TrustGates ==
    TickOn =>
        /\ run_trust_gates(Committed, mm.records, TrustEps) = {}
        /\ mm.gate = {}
        /\ mm.exc # "RuntimeError"

\* main has ended after its post-run gate, with a filled buy and a filled
\* sell on record and the lot closed
C39_Witness ==
    /\ TickOn /\ mm.pc = "done"
    /\ \E b, s \in mm.records :
          /\ b.side = "buy" /\ s.side = "sell"
          /\ b.fill_price # None /\ s.fill_price # None
          /\ b.trade_id = s.trade_id
    /\ \E i \in RowIds : trades[i].status = "closed"

====
